---------------------------- MODULE Spec2Model ----------------------------
(***************************************************************************)
(* MiniTrainStore: the listing store reconciler of the background script   *)
(* (entrypoints/background.ts) and the Odoo synchronisation service        *)
(* (services/odoo.ts).                                                     *)
(*                                                                         *)
(* JavaScript objects are modelled as functions from property names to     *)
(* values: a property that is not set is a name outside the DOMAIN, and    *)
(* reading it yields Undefined, as in the language.                        *)
(***************************************************************************)
EXTENDS Integers, Sequences, FiniteSets, TLC

(***************************************************************************)
(* Bounds of the model.                                                    *)
(***************************************************************************)
\* longest batch of listings one SAVE_PRODUCTS message carries
MaxIncoming == 2

(***************************************************************************)
(* JavaScript values and object operations.                                *)
(***************************************************************************)
Undefined == "undefined"

\* o[k] of JavaScript: undefined when the property is not set
Get(o, k) == IF k \in DOMAIN o THEN o[k] ELSE Undefined

\* { ...a, ...b }: the own properties of a, overwritten by those of b
Spread(a, b) ==
  [k \in (DOMAIN a) \cup (DOMAIN b) |-> IF k \in DOMAIN b THEN b[k] ELSE a[k]]

\* m[k] = v on a copy of the object m
Put(m, k, v) == [x \in (DOMAIN m) \cup {k} |-> IF x = k THEN v ELSE m[x]]

\* {}
EmptyObject == [x \in {} |-> Undefined]

(***************************************************************************)
(* types/product: ProductState and ProductListing.                         *)
(***************************************************************************)
ACTIVE == "ACTIVE"
SOLD == "SOLD"
REMOVED == "REMOVED"
ProductState == {ACTIVE, SOLD, REMOVED}

\* the fields mergeListingsWithStats compares
MonitoredFields == {"title", "price", "state", "datePosted", "url", "thumbnail"}
ListingFields == MonitoredFields \cup {"id", "date"}

Usernames == {"alice", "bob"}
Ids == {"a", "b", "c"}

\* a listing as parseArticle builds it, every field set
BaseListing(id) ==
  [id |-> id, title |-> "t1", price |-> 10, url |-> "u1", datePosted |-> "d1",
   date |-> "iso1", state |-> ACTIVE, thumbnail |-> "th1"]

\* the listing without its thumbnail property (JSON message passing drops a
\* property whose value is undefined)
WithoutThumbnail(l) == [k \in (DOMAIN l) \ {"thumbnail"} |-> l[k]]

\* the listings a scrape can report for an id: the base listing and those that
\* differ from it in one field; parseArticle reports ACTIVE or SOLD only
ListingVariants(id) ==
  LET b == BaseListing(id) IN
  {b,
   [b EXCEPT !.title = "t2"],
   [b EXCEPT !.price = 20],
   [b EXCEPT !.url = "u2"],
   [b EXCEPT !.datePosted = "d2"],
   [b EXCEPT !.date = "iso2"],
   [b EXCEPT !.state = SOLD],
   [b EXCEPT !.thumbnail = "th2"],
   [b EXCEPT !.thumbnail = Undefined],
   WithoutThumbnail(b)}

\* the other listings vary less, to keep the batches few
FewVariants(id) ==
  LET b == BaseListing(id) IN {b, [b EXCEPT !.price = 20]}

\* the listings a scrape of the seller's profile page can report
IncomingListings(username) ==
  IF username = "alice"
    THEN ListingVariants("a") \cup FewVariants("b") \cup {BaseListing("c")}
    ELSE {BaseListing("a")}

\* the batches of at most n listings over the pool S
RECURSIVE SeqsUpTo(_, _)
SeqsUpTo(S, n) ==
  IF n = 0 THEN {<<>>}
  ELSE LET shorter == SeqsUpTo(S, n - 1) IN
       shorter \cup {Append(s, x) : s \in {t \in shorter : Len(t) = n - 1}, x \in S}

(***************************************************************************)
(* Text: a string is the sequence of its characters.                       *)
(***************************************************************************)
UpperToLower ==
  [A |-> "a", B |-> "b", C |-> "c", D |-> "d", E |-> "e", F |-> "f", G |-> "g",
   H |-> "h", I |-> "i", J |-> "j", K |-> "k", L |-> "l", M |-> "m", N |-> "n",
   O |-> "o", P |-> "p", Q |-> "q", R |-> "r", S |-> "s", T |-> "t", U |-> "u",
   V |-> "v", W |-> "w", X |-> "x", Y |-> "y", Z |-> "z"]

\* String.prototype.toLowerCase
toLowerCase(s) ==
  [i \in 1..Len(s) |-> IF s[i] \in DOMAIN UpperToLower THEN UpperToLower[s[i]] ELSE s[i]]

Whitespace == {" "}

\* s.split(/\s+/): the pieces between the maximal runs of whitespace, the empty
\* piece before a leading run and after a trailing one included
RECURSIVE SplitFrom(_, _, _, _)
SplitFrom(s, i, piece, pieces) ==
  IF i > Len(s) THEN Append(pieces, piece)
  ELSE IF s[i] \in Whitespace
         THEN IF i > 1 /\ s[i - 1] \in Whitespace
                THEN SplitFrom(s, i + 1, piece, pieces)
                ELSE SplitFrom(s, i + 1, <<>>, Append(pieces, piece))
         ELSE SplitFrom(s, i + 1, Append(piece, s[i]), pieces)

split(s) == SplitFrom(s, 1, <<>>, <<>>)

\* String.prototype.includes
includes(word, keyword) ==
  \E k \in 0..(Len(word) - Len(keyword)) :
    SubSeq(word, k + 1, k + Len(keyword)) = keyword

(***************************************************************************)
(* services/odoo.ts: the controlled vocabulary, in the order of the object *)
(* literals (Object.entries keeps it).                                     *)
(***************************************************************************)
TAGS_MAP ==
  <<
    [name |-> "Jouef",
     keywords |-> <<<<"j", "o", "u", "e", "f">>>>],
    [name |-> "Lima",
     keywords |-> <<<<"l", "i", "m", "a">>>>],
    [name |-> "Hornby",
     keywords |-> <<<<"h", "o", "r", "n", "b", "y">>>>],
    [name |-> "Roco",
     keywords |-> <<<<"r", "o", "c", "o">>>>],
    [name |-> "Piko",
     keywords |-> <<<<"p", "i", "k", "o">>>>],
    [name |-> "Märklin",
     keywords |-> <<<<"m", "a", "r", "k", "l", "i", "n">>,
                   <<"m", "ä", "r", "k", "l", "i", "n">>>>],
    [name |-> "Fleischmann",
     keywords |-> <<<<"f", "l", "e", "i", "s", "c", "h", "m", "a", "n", "n">>>>],
    [name |-> "H0",
     keywords |-> <<<<"h", "o">>>>],
    [name |-> "SNCF",
     keywords |-> <<<<"s", "n", "c", "f">>>>]
  >>

CATEGORY_MAP ==
  <<
    [name |-> "Wagons",
     keywords |-> <<<<"w", "a", "g", "o", "n">>,
                   <<"w", "a", "g", "o", "n", "s">>,
                   <<"v", "o", "i", "t", "u", "r", "e">>,
                   <<"v", "o", "i", "t", "u", "r", "e", "s">>,
                   <<"f", "o", "u", "r", "g", "o", "n">>,
                   <<"a", "l", "l", "è", "g", "e">>,
                   <<"r", "e", "m", "o", "r", "q", "u", "e">>>>],
    [name |-> "Locomotives",
     keywords |-> <<<<"l", "o", "c", "o", "m", "o", "t", "i", "v", "e">>,
                   <<"l", "o", "c", "o", "m", "o", "t", "i", "v", "e", "s">>,
                   <<"l", "o", "c", "o", "t", "r", "a", "c", "t", "e", "u", "r">>,
                   <<"l", "o", "c", "o", "t", "e", "n", "d", "e", "r">>,
                   <<"a", "u", "t", "o", "r", "a", "i", "l">>>>],
    [name |-> "Rails",
     keywords |-> <<<<"t", "r", "a", "i", "l", "s">>,
                   <<"r", "a", "i", "l">>,
                   <<"a", "i", "g", "u", "i", "l", "l", "a", "g", "e">>,
                   <<"v", "o", "i", "e">>,
                   <<"r", "a", "i", "l", "s">>,
                   <<"a", "i", "g", "u", "i", "l", "l", "a", "g", "e", "s">>,
                   <<"v", "o", "i", "e", "s">>,
                   <<"c", "r", "o", "i", "s", "e", "m", "e", "n", "t">>,
                   <<"j", "o", "n", "c", "t", "i", "o", "n">>,
                   <<"t", "j", "d">>,
                   <<"h", "e", "u", "r", "t", "o", "i", "r">>,
                   <<"h", "e", "u", "r", "t", "o", "i", "r", "s">>>>],
    [name |-> "Décor",
     keywords |-> <<<<"p", "e", "r", "s", "o", "n", "n", "a", "g", "e", "s">>,
                   <<"p", "e", "r", "s", "o", "n", "n", "a", "g", "e">>,
                   <<"t", "u", "n", "n", "e", "l">>,
                   <<"c", "o", "n", "t", "e", "n", "e", "u", "r", "s">>,
                   <<"b", "u", "r", "e", "a", "u">>>>],
    [name |-> "Coffrets",
     keywords |-> <<<<"c", "o", "f", "f", "r", "e", "t">>,
                   <<"c", "o", "f", "f", "r", "e", "t", "s">>>>]
  >>

\* keywords.some(keyword => titleWords.some(word => word.includes(keyword)))
Matches(keywords, titleWords) ==
  \E k \in 1..Len(keywords) :
    \E w \in 1..Len(titleWords) : includes(titleWords[w], keywords[k])

\* the names of the entries of a map that match, in the order of the map
RECURSIVE MatchingFrom(_, _, _)
MatchingFrom(map, titleWords, i) ==
  IF i > Len(map) THEN <<>>
  ELSE IF Matches(map[i].keywords, titleWords)
         THEN <<map[i].name>> \o MatchingFrom(map, titleWords, i + 1)
         ELSE MatchingFrom(map, titleWords, i + 1)

\* OdooService.getTags
getTags(product) == MatchingFrom(TAGS_MAP, split(toLowerCase(product.title)), 1)

Null == "null"

\* a getCategory that keeps the last category that matches
getCategoryOfLastMatch(product) ==
  LET found == MatchingFrom(CATEGORY_MAP, split(toLowerCase(product.title)), 1)
  IN IF found = <<>> THEN Null ELSE found[Len(found)]

\* OdooService.getCategory: the first category that matches, or null
getCategory(product) ==
  LET found == MatchingFrom(CATEGORY_MAP, split(toLowerCase(product.title)), 1)
  IN IF found = <<>> THEN Null ELSE found[1]

(***************************************************************************)
(* Titles to classify: up to MaxWords words of a small vocabulary, and the *)
(* titles of the examples.                                                 *)
(***************************************************************************)
MaxWords == 2

TitleWords ==
  {<<"W", "a", "g", "o", "n">>, <<"J", "o", "u", "e", "f">>, <<"H", "0">>,
   <<"H", "O">>, <<"S", "N", "C", "F">>, <<"C", "o", "f", "f", "r", "e", "t">>,
   <<"A", "u", "t", "o", "r", "a", "i", "l">>, <<"H", "o", "r", "n", "b", "y">>,
   <<"b", "l", "e", "u">>}

\* the words of a title, one space between two
RECURSIVE JoinWords(_)
JoinWords(words) ==
  IF Len(words) = 0 THEN <<>>
  ELSE IF Len(words) = 1 THEN words[1]
  ELSE words[1] \o <<" ">> \o JoinWords(Tail(words))

WagonJouefH0SNCF ==
  JoinWords(<<<<"W", "a", "g", "o", "n">>, <<"J", "o", "u", "e", "f">>, <<"H", "0">>,
              <<"S", "N", "C", "F">>>>)
WagonJouefH0 ==
  JoinWords(<<<<"W", "a", "g", "o", "n">>, <<"J", "o", "u", "e", "f">>, <<"H", "0">>>>)

Titles ==
  {JoinWords(words) : words \in SeqsUpTo(TitleWords, MaxWords)}
    \cup {WagonJouefH0SNCF, WagonJouefH0}

(***************************************************************************)
(* The persisted store and the last request handled.                       *)
(***************************************************************************)
VARIABLES
  profiles,   \* storage item "local:profiles": username -> [listings, details,
              \* odooExports (optional)], each a mapping by id
  last        \* the last message handled, its inputs, the store it read, its reply

storeVars == <<profiles, last>>

(***************************************************************************)
(* The state of one OdooService.exportProducts call, and the module-level  *)
(* caches of services/odoo.ts.                                             *)
(***************************************************************************)
VARIABLES
  message,                  \* EXPORT_TO_ODOO: message.products, as the popup sent them
  products,                 \* the argument products: cleanedProducts
  overwriteExisting,        \* the argument overwriteExisting
  index,                    \* position of the for-of loop in products
  pc,                       \* where exportProduct stands for products[index]
  existingProductId,        \* exportProduct: the result of searchProduct
  productData,              \* createProduct / updateProduct: the payload
  calls,                    \* the product.template requests issued so far
  results,                  \* what exportProduct returned, per product
  raised,                   \* the error its try block caught, per product
  created, updated, archived, errors,   \* the locals of exportProducts
  TAGS_ID_CACHE, CATEGORY_ID_CACHE, PUBLIC_CATEGORY_ID_CACHE, TAX_ID_CACHE

cacheVars ==
  <<TAGS_ID_CACHE, CATEGORY_ID_CACHE, PUBLIC_CATEGORY_ID_CACHE, TAX_ID_CACHE>>
runVars ==
  <<message, products, overwriteExisting, index, pc, existingProductId, productData,
    calls, results, raised, created, updated, archived, errors>>
exportVars == <<runVars, cacheVars>>

(***************************************************************************)
(* The reference data resolver observed call by call.                      *)
(***************************************************************************)
VARIABLES
  lastCall,        \* the last get...Id call: its arguments, the cache it found, its result
  remoteLookups    \* per kind and name: the lookups the remote answered with a record

resolveVars == <<lastCall, remoteLookups>>

taxName == "0% EXEMPT G"

\* the names the resolver is asked for: the tags and the categories of the
\* products of the profile, and the one tax
ResolvedTags == {"Jouef", "Lima"}
ResolvedCategories == {"Wagons", "Rails"}
ResolveKinds == {"tag", "category", "public_category", "tax"}
NamesOf(kind) ==
  IF kind = "tag" THEN ResolvedTags
  ELSE IF kind = "tax" THEN {taxName}
  ELSE ResolvedCategories

NoCall ==
  [kind |-> "none", name |-> "", response |-> "", error |-> "", id |-> "null",
   before |-> EmptyObject]

\* no get...Id call was made yet
NoResolve ==
  /\ lastCall = NoCall
  /\ remoteLookups = [kind \in ResolveKinds |-> [name \in NamesOf(kind) |-> 0]]

(***************************************************************************)
(* The taxonomy classifier applied to one title.                           *)
(***************************************************************************)
VARIABLES
  classify   \* the title given, and the tags and the category found for it

classifyVars == <<classify>>

NoClassify == classify = [title |-> <<>>, tags |-> <<"?">>, category |-> "?"]

(***************************************************************************)
(* The ad pages open in the browser (content script, scrapeAdDetails).     *)
(***************************************************************************)
VARIABLES
  tabs   \* per tab: whether it has found its ad without details and scraped them

tabVars == <<tabs>>

Tabs == {"tab1", "tab2"}

ClosedTab == [step |-> "idle", username |-> "", adId |-> ""]

NoTabs == tabs = [t \in Tabs |-> ClosedTab]

(***************************************************************************)
(* The message handlers of the background script in flight: each one reads *)
(* the storage item, then writes it back, and the listener takes the next  *)
(* message while one waits for the storage.                                *)
(***************************************************************************)
VARIABLES
  handlers,    \* per handler in flight: its message and the profiles it has read
  now,         \* the clock that new Date() reads
  lastWrite    \* the last handler that finished, the store it found and the time

asyncVars == <<handlers, now, lastWrite>>

\* the handlers that can be in flight at the same time
Slots == {"h1", "h2"}

FreeHandler ==
  [type |-> "free", username |-> "", newProducts |-> <<>>, detail |-> EmptyObject,
   currentIds |-> {}, productId |-> "", result |-> EmptyObject,
   read |-> EmptyObject]

NoWrite ==
  [handler |-> FreeHandler, overwritten |-> EmptyObject, time |-> 0, wrote |-> FALSE,
   combined |-> <<>>]

NoHandlers ==
  /\ handlers = [s \in Slots |-> FreeHandler]
  /\ now = 0
  /\ lastWrite = NoWrite

(***************************************************************************)
(* The export requests in flight, each with its own OdooService, and the   *)
(* product.template records the remote has created.                        *)
(***************************************************************************)
VARIABLES
  exports,    \* per EXPORT_SINGLE_TO_ODOO request: where its exportProduct stands
  catalog     \* per name: the records the remote has created, and archived

concurrentVars == <<exports, catalog>>

NoRequestInFlight ==
  [pc |-> "idle", product |-> EmptyObject, existingProductId |-> "null",
   pending |-> {}]

NoExports ==
  /\ exports = [s \in Slots |-> NoRequestInFlight]
  /\ catalog = EmptyObject

(***************************************************************************)
(* The pagination walk of the content script (scrapeAllPages).             *)
(***************************************************************************)
VARIABLES
  scrape,  \* the walk over the pages of a seller's profile, and what it sent
  page     \* the document the content script runs in, and its module variables

scrapeVars == <<scrape, page>>

NoWalk ==
  [step |-> "idle", pages |-> <<>>, totalPages |-> 0, pageNum |-> 0, shown |-> 0,
   visited |-> {}, scrapedIdsSet |-> {}, allProducts |-> <<>>, stopped |-> FALSE,
   marked |-> FALSE, currentIds |-> {}]

\* no page is open: isObserving is false, scrapedIds is empty
NoPage ==
  [location |-> "", shown |-> "", loading |-> {}, watcher |-> "", scrapedIds |-> {}]

NoScrape ==
  /\ scrape = NoWalk
  /\ page = NoPage

\* the variables of the handlers in flight, the concurrent exports and the walk
otherVars == <<asyncVars, concurrentVars, scrapeVars>>

vars == <<storeVars, exportVars, resolveVars, classifyVars, tabVars, otherVars>>

NoRequest ==
  [type |-> "NONE", username |-> "", before |-> EmptyObject, products |-> <<>>,
   currentIds |-> {}, added |-> 0, updated |-> 0]

\* existingProfile?.listings || {}
ListingsOf(store, username) ==
  IF username \in DOMAIN store THEN store[username].listings ELSE EmptyObject

\* existingProfile?.details || {}
DetailsOf(store, username) ==
  IF username \in DOMAIN store /\ "details" \in DOMAIN store[username]
    THEN store[username].details
    ELSE EmptyObject

\* profile.odooExports, when the profile has any
ExportsOf(store, username) ==
  IF username \in DOMAIN store /\ "odooExports" \in DOMAIN store[username]
    THEN store[username].odooExports
    ELSE EmptyObject

(***************************************************************************)
(* mergeListingsWithStats (background.ts).                                 *)
(***************************************************************************)
\* a comparison that also reads the date, which the listing does not monitor
hasChangedOrRedated(existingListing, listing) ==
  \/ \E f \in MonitoredFields : Get(existingListing, f) # Get(listing, f)
  \/ Get(existingListing, "date") # Get(listing, "date")

\* a comparison that does not read the state
hasChangedButState(existingListing, listing) ==
  \/ Get(existingListing, "title") # Get(listing, "title")
  \/ Get(existingListing, "price") # Get(listing, "price")
  \/ Get(existingListing, "datePosted") # Get(listing, "datePosted")
  \/ Get(existingListing, "url") # Get(listing, "url")
  \/ Get(existingListing, "thumbnail") # Get(listing, "thumbnail")

hasChanged(existingListing, listing) ==
  \/ Get(existingListing, "title") # Get(listing, "title")
  \/ Get(existingListing, "price") # Get(listing, "price")
  \/ Get(existingListing, "state") # Get(listing, "state")
  \/ Get(existingListing, "datePosted") # Get(listing, "datePosted")
  \/ Get(existingListing, "url") # Get(listing, "url")
  \/ Get(existingListing, "thumbnail") # Get(listing, "thumbnail")

\* a callback that inserts a new listing and forgets to count it
MergeOneUncounted(acc, listing) ==
  IF listing.id \in DOMAIN acc.merged
    THEN IF hasChanged(acc.merged[listing.id], listing)
           THEN [acc EXCEPT
                   !.merged = Put(acc.merged, listing.id,
                                  Spread(acc.merged[listing.id], listing)),
                   !.updated = acc.updated + 1]
           ELSE acc
    ELSE [acc EXCEPT !.merged = Put(acc.merged, listing.id, listing)]

\* one call of the forEach callback
MergeOne(acc, listing) ==
  IF listing.id \in DOMAIN acc.merged
    THEN IF hasChanged(acc.merged[listing.id], listing)
           THEN [acc EXCEPT
                   !.merged = Put(acc.merged, listing.id,
                                  Spread(acc.merged[listing.id], listing)),
                   !.updated = acc.updated + 1]
           ELSE acc
    ELSE [acc EXCEPT !.merged = Put(acc.merged, listing.id, listing),
                     !.added = acc.added + 1]

RECURSIVE MergeFrom(_, _, _)
MergeFrom(acc, newListings, i) ==
  IF i > Len(newListings) THEN acc
  ELSE MergeFrom(MergeOne(acc, newListings[i]), newListings, i + 1)

\* a merge that starts from an empty object instead of a copy of existing
mergeIntoEmpty(existing, newListings) ==
  MergeFrom([merged |-> EmptyObject, added |-> 0, updated |-> 0], newListings, 1)

mergeListingsWithStats(existing, newListings) ==
  MergeFrom([merged |-> existing, added |-> 0, updated |-> 0], newListings, 1)

(***************************************************************************)
(* handleSaveProducts: the SAVE_PRODUCTS message.                          *)
(***************************************************************************)
handleSaveProducts(username, newProducts) ==
  LET existingListings == ListingsOf(profiles, username)
      r == mergeListingsWithStats(existingListings, newProducts)
      existingDetails == DetailsOf(profiles, username)
  IN /\ profiles' = Put(profiles, username,
                        [listings |-> r.merged, details |-> existingDetails])
     /\ last' = [type |-> "SAVE_PRODUCTS", username |-> username,
                 before |-> profiles, products |-> newProducts,
                 currentIds |-> {}, added |-> r.added, updated |-> r.updated]

(***************************************************************************)
(* markMissingAsRemoved: the MARK_MISSING_AS_REMOVED message.              *)
(***************************************************************************)
\* a loop that does not look at currentIds
MarkEveryListing(listings, currentIdsSet) ==
  [id \in DOMAIN listings |->
     IF listings[id].state # REMOVED
       THEN Spread(listings[id], [state |-> REMOVED])
       ELSE listings[id]]

\* a loop that leaves sold listings alone
MarkActiveListings(listings, currentIdsSet) ==
  [id \in DOMAIN listings |->
     IF id \notin currentIdsSet /\ listings[id].state = ACTIVE
       THEN Spread(listings[id], [state |-> REMOVED])
       ELSE listings[id]]

\* a loop that deletes the listings it does not find
DeleteMissingListings(listings, currentIdsSet) ==
  [id \in {x \in DOMAIN listings : x \in currentIdsSet \/ listings[x].state = REMOVED} |->
     listings[id]]

\* a loop that stores the state alone in place of the listing
MarkListingsBare(listings, currentIdsSet) ==
  [id \in DOMAIN listings |->
     IF id \notin currentIdsSet /\ listings[id].state # REMOVED
       THEN [state |-> REMOVED]
       ELSE listings[id]]

\* the loop over Object.entries(profile.listings)
MarkListings(listings, currentIdsSet) ==
  [id \in DOMAIN listings |->
     IF id \notin currentIdsSet /\ listings[id].state # REMOVED
       THEN Spread(listings[id], [state |-> REMOVED])
       ELSE listings[id]]

removedCount(listings, currentIdsSet) ==
  Cardinality({id \in DOMAIN listings :
                 id \notin currentIdsSet /\ listings[id].state # REMOVED})

markMissingAsRemoved(username, currentIds) ==
  /\ profiles' =
       IF username \notin DOMAIN profiles
         THEN profiles
         ELSE IF removedCount(profiles[username].listings, currentIds) > 0
                THEN Put(profiles, username,
                         [profiles[username] EXCEPT
                            !.listings = MarkListings(@, currentIds)])
                ELSE profiles
  /\ last' = [type |-> "MARK_MISSING_AS_REMOVED", username |-> username,
              before |-> profiles, products |-> <<>>,
              currentIds |-> currentIds, added |-> 0, updated |-> 0]

(***************************************************************************)
(* The store as a state machine.                                           *)
(***************************************************************************)
\* no export is running and nothing was looked up yet
NoExport ==
  /\ message = <<>>
  /\ products = <<>>
  /\ overwriteExisting = TRUE
  /\ index = 1
  /\ pc = "returned"
  /\ existingProductId = Null
  /\ productData = EmptyObject
  /\ calls = <<>>
  /\ results = <<>>
  /\ raised = <<>>
  /\ created = 0
  /\ updated = 0
  /\ archived = 0
  /\ errors = <<>>
  /\ TAGS_ID_CACHE = EmptyObject
  /\ CATEGORY_ID_CACHE = EmptyObject
  /\ PUBLIC_CATEGORY_ID_CACHE = EmptyObject
  /\ TAX_ID_CACHE = EmptyObject

Init ==
  /\ profiles = EmptyObject
  /\ last = NoRequest
  /\ NoExport
  /\ NoResolve
  /\ NoClassify
  /\ NoTabs
  /\ NoHandlers
  /\ NoExports
  /\ NoScrape

\* the listener handles one message, then answers it
Idle == last.type = "NONE"

SaveProducts ==
  /\ Idle
  /\ \E username \in Usernames :
       \E newProducts \in SeqsUpTo(IncomingListings(username), MaxIncoming) :
         handleSaveProducts(username, newProducts)
  /\ UNCHANGED <<otherVars, exportVars, resolveVars, classifyVars, tabVars>>

MarkMissing ==
  /\ Idle
  /\ \E username \in Usernames :
       \E currentIds \in SUBSET Ids :
         markMissingAsRemoved(username, currentIds)
  /\ UNCHANGED <<otherVars, exportVars, resolveVars, classifyVars, tabVars>>

\* sendResponse: the reply leaves, the listener waits for the next message
Respond ==
  /\ ~Idle
  /\ last' = NoRequest
  /\ UNCHANGED <<otherVars, profiles, exportVars, resolveVars, classifyVars, tabVars>>

Next ==
  \/ SaveProducts
  \/ MarkMissing
  \/ Respond

Spec == Init /\ [][Next]_vars

(***************************************************************************)
(* handleSaveProductDetails: the SAVE_PRODUCT_DETAILS message.             *)
(***************************************************************************)
handleSaveProductDetails(username, detail) ==
  LET existingListings == ListingsOf(profiles, username)
      existingDetails == DetailsOf(profiles, username)
  IN /\ profiles' =
          Put(profiles, username,
              [listings |-> existingListings,
               details |-> Put(existingDetails, detail.id, detail)])
     /\ last' = [type |-> "SAVE_PRODUCT_DETAILS", username |-> username,
                 before |-> profiles, products |-> <<>>, currentIds |-> {},
                 added |-> 0, updated |-> 0, detail |-> detail]

(***************************************************************************)
(* exportSingleToOdoo: what it stores once exportProduct has returned.     *)
(***************************************************************************)
\* profile.odooExports[product.id] = {exported, odooProductId, lastExportedAt,
\* exportError}
ExportStatus(result, time) ==
  [exported |-> result.success, odooProductId |-> Get(result, "productId"),
   lastExportedAt |-> time, exportError |-> Get(result, "error")]

saveExportStatus(username, productId, result) ==
  /\ profiles' =
       IF username \notin DOMAIN profiles
         THEN profiles
         ELSE Put(profiles, username,
                  Spread(profiles[username],
                         [odooExports |->
                            Put(ExportsOf(profiles, username), productId,
                                ExportStatus(result, "t3"))]))
  /\ last' = [type |-> "EXPORT_SINGLE_TO_ODOO", username |-> username,
              before |-> profiles, products |-> <<>>, currentIds |-> {},
              added |-> 0, updated |-> 0]

(***************************************************************************)
(* A seller's profile through listings, details and export status: one ad, *)
(* two sellers, two tabs.                                                  *)
(***************************************************************************)
\* the ad whose page is visited and the product that is exported
AdIds == {"a"}

\* what scrapeAdDetails reads off the page of an ad, at one visit or another
DetailsOfAd(adId) ==
  {[id |-> adId, description |-> "desc1", photos |-> <<"photo1">>,
    scrapedAt |-> "t1"],
   [id |-> adId, description |-> "desc2", photos |-> <<"photo1", "photo2">>,
    scrapedAt |-> "t2"]}

\* what exportProduct may return
ExportOutcomes ==
  {[success |-> TRUE, productId |-> "p1", updated |-> TRUE],
   [success |-> FALSE, error |-> "Error: HTTP error"]}

\* SAVE_PRODUCTS with the listings of a page that shows the ad, or no listing
SaveProductsOfPage ==
  /\ Idle
  /\ \E username \in Usernames :
       \E newProducts \in SeqsUpTo({BaseListing(id) : id \in AdIds}, 1) :
         handleSaveProducts(username, newProducts)
  /\ UNCHANGED <<otherVars, exportVars, resolveVars, classifyVars, tabVars>>

\* scrapeAdDetails up to the scraping: CHECK_LISTING_EXISTS answers that the ad
\* is a listing of the seller, CHECK_DETAILS_EXIST that it has no details yet
CheckAdPage ==
  /\ Idle
  /\ \E tab \in Tabs, username \in Usernames, adId \in AdIds :
       /\ tabs[tab].step = "idle"
       /\ adId \in DOMAIN ListingsOf(profiles, username)
       /\ adId \notin DOMAIN DetailsOf(profiles, username)
       /\ tabs' = [tabs EXCEPT ![tab] =
                     [step |-> "scraped", username |-> username, adId |-> adId]]
  /\ UNCHANGED <<otherVars, storeVars, exportVars, resolveVars, classifyVars>>

\* saveProductDetails(username, detail): the tab sends what it has scraped
SaveProductDetails ==
  /\ Idle
  /\ \E tab \in Tabs :
       /\ tabs[tab].step = "scraped"
       /\ \E detail \in DetailsOfAd(tabs[tab].adId) :
            handleSaveProductDetails(tabs[tab].username, detail)
       /\ tabs' = [tabs EXCEPT ![tab] = ClosedTab]
  /\ UNCHANGED <<otherVars, exportVars, resolveVars, classifyVars>>

\* exportToOdoo once exportProducts has returned: a status per product sent,
\* under productIds[i], failed when result.errors names the product
saveExportStatuses(username, productIds, failed) ==
  LET sent == {productIds[i] : i \in 1..Len(productIds)}
      status(id) ==
        [exported |-> id \notin failed, lastExportedAt |-> "t3",
         exportError |-> IF id \in failed THEN "Error: HTTP error" ELSE Undefined]
      stored == ExportsOf(profiles, username)
  IN /\ profiles' =
          IF username \notin DOMAIN profiles
            THEN profiles
            ELSE Put(profiles, username,
                     Spread(profiles[username],
                            [odooExports |->
                               [id \in (DOMAIN stored) \cup sent |->
                                  IF id \in sent THEN status(id) ELSE stored[id]]]))
     /\ last' = [type |-> "EXPORT_TO_ODOO", username |-> username,
                 before |-> profiles, products |-> <<>>, currentIds |-> {},
                 added |-> 0, updated |-> 0]

\* the popup sends products of the list it shows: listings of the profile
Listed(username) == DOMAIN ListingsOf(profiles, username)

\* EXPORT_SINGLE_TO_ODOO, from the export to the status stored
ExportSingle ==
  /\ Idle
  /\ \E username \in Usernames, productId \in AdIds, result \in ExportOutcomes :
       /\ productId \in Listed(username)
       /\ saveExportStatus(username, productId, result)
  /\ UNCHANGED <<otherVars, exportVars, resolveVars, classifyVars, tabVars>>

\* EXPORT_TO_ODOO, from the export to the statuses stored
ExportBatch ==
  /\ Idle
  /\ \E username \in Usernames, productId \in AdIds, failed \in SUBSET AdIds :
       /\ productId \in Listed(username)
       /\ ListingsOf(profiles, username)[productId].state = ACTIVE
       /\ productId \in DOMAIN DetailsOf(profiles, username)
       /\ saveExportStatuses(username, <<productId>>, failed)
  /\ UNCHANGED <<otherVars, exportVars, resolveVars, classifyVars, tabVars>>

\* the popup's clearCurrentProfile: the seller's profile is deleted
clearCurrentProfile ==
  /\ Idle
  /\ \E selectedProfile \in DOMAIN profiles :
       profiles' = [username \in (DOMAIN profiles) \ {selectedProfile} |->
                      profiles[username]]
  /\ UNCHANGED <<last, otherVars, exportVars, resolveVars, classifyVars, tabVars>>

\* the popup's clearAllProfiles: storage.setItem("local:profiles", {})
clearAllProfiles ==
  /\ Idle
  /\ profiles' = EmptyObject
  /\ UNCHANGED <<last, otherVars, exportVars, resolveVars, classifyVars, tabVars>>

NextProfile ==
  \/ SaveProductsOfPage
  \/ CheckAdPage
  \/ SaveProductDetails
  \/ MarkMissing
  \/ ExportSingle
  \/ ExportBatch
  \/ clearCurrentProfile
  \/ clearAllProfiles
  \/ Respond

SpecProfile == Init /\ [][NextProfile]_vars

(***************************************************************************)
(* The handlers with their storage accesses apart: what each one writes is *)
(* computed from the profiles its getItem returned, and setItem replaces   *)
(* the whole item.  Times are readings of the clock.                       *)
(***************************************************************************)
\* the longest run of the clock: it ticks at every storage access
MaxTime == 5

\* the handler has called setItem with the blob, or has returned without
Wrote(blob) == [wrote |-> TRUE, blob |-> blob]
NothingWritten == [wrote |-> FALSE, blob |-> EmptyObject]

\* existingProfile?.lastScraped || new Date().toISOString()
LastScrapedOr(read, username, time) ==
  IF username \in DOMAIN read /\ "lastScraped" \in DOMAIN read[username]
    THEN read[username].lastScraped
    ELSE time

\* handleSaveProducts, from the profiles read to the blob written
SaveProductsWrites(read, username, newProducts, time) ==
  LET existingListings == ListingsOf(read, username)
      existingDetails == DetailsOf(read, username)
      r == mergeListingsWithStats(existingListings, newProducts)
  IN Wrote(Put(read, username,
               [listings |-> r.merged, details |-> existingDetails,
                lastScraped |-> time]))

\* handleSaveProductDetails
SaveProductDetailsWrites(read, username, detail, time) ==
  LET existingListings == ListingsOf(read, username)
      existingDetails == DetailsOf(read, username)
  IN Wrote(Put(read, username,
               [listings |-> existingListings,
                details |-> Put(existingDetails, detail.id, detail),
                lastScraped |-> LastScrapedOr(read, username, time)]))

\* markMissingAsRemoved: it writes when it has marked a listing
MarkMissingWrites(read, username, currentIds) ==
  IF username \notin DOMAIN read THEN NothingWritten
  ELSE IF removedCount(read[username].listings, currentIds) = 0 THEN NothingWritten
  ELSE Wrote(Put(read, username,
                 [read[username] EXCEPT !.listings = MarkListings(@, currentIds)]))

\* a status assignment that lays the new properties over the stored status
ExportSingleMerges(read, username, productId, result, time) ==
  IF username \notin DOMAIN read THEN NothingWritten
  ELSE LET stored == ExportsOf(read, username)
           fresh == ExportStatus(result, time)
           optional == {"odooProductId", "exportError"}
           set == [k \in {x \in DOMAIN fresh :
                            x \in optional => fresh[x] # Undefined} |-> fresh[k]]
           status == IF productId \in DOMAIN stored
                       THEN Spread(stored[productId], set) ELSE fresh
       IN Wrote(Put(read, username,
                    Spread(read[username],
                           [odooExports |-> Put(stored, productId, status)])))

\* exportSingleToOdoo once exportProduct has returned result
ExportSingleWrites(read, username, productId, result, time) ==
  IF username \notin DOMAIN read THEN NothingWritten
  ELSE Wrote(Put(read, username,
                 Spread(read[username],
                        [odooExports |->
                           Put(ExportsOf(read, username), productId,
                               ExportStatus(result, time))])))

\* Object.entries(listings): the keys, one after the other
RECURSIVE entries(_)
entries(keys) ==
  IF keys = {} THEN <<>>
  ELSE LET id == CHOOSE x \in keys : TRUE IN <<id>> \o entries(keys \ {id})

\* the Product pushed for a listing: the listing, the three properties of its
\* detail and its export status; a property whose value is undefined is one
\* the reader of the reply does not find, and is left out
CombinedProduct(id, listings, details, odooExports) ==
  Spread(listings[id],
         Spread(IF id \in DOMAIN details
                  THEN [description |-> details[id].description,
                        photos |-> details[id].photos,
                        detailsScrapedAt |-> details[id].scrapedAt]
                  ELSE EmptyObject,
                IF id \in DOMAIN odooExports
                  THEN [odooExport |-> odooExports[id]]
                  ELSE EmptyObject))

\* a join that starts from the details: listings without detail are left out
combineDetailedListings(listings, details, odooExports) ==
  LET ids == entries((DOMAIN listings) \cap (DOMAIN details))
  IN [i \in 1..Len(ids) |-> CombinedProduct(ids[i], listings, details, odooExports)]

combineListingsWithDetails(listings, details, odooExports) ==
  LET ids == entries(DOMAIN listings)
  IN [i \in 1..Len(ids) |-> CombinedProduct(ids[i], listings, details, odooExports)]

\* getCombinedProducts: no product for a seller without profile
getCombinedProducts(read, username) ==
  IF username \notin DOMAIN read THEN <<>>
  ELSE combineListingsWithDetails(ListingsOf(read, username), DetailsOf(read, username),
                                  ExportsOf(read, username))

\* what the handler writes, from its message and the profiles it has read
WritesOf(handler, time) ==
  IF handler.type = "SAVE_PRODUCTS"
    THEN SaveProductsWrites(handler.read, handler.username, handler.newProducts, time)
  ELSE IF handler.type = "SAVE_PRODUCT_DETAILS"
    THEN SaveProductDetailsWrites(handler.read, handler.username, handler.detail, time)
  ELSE IF handler.type = "MARK_MISSING_AS_REMOVED"
    THEN MarkMissingWrites(handler.read, handler.username, handler.currentIds)
  ELSE IF handler.type = "GET_COMBINED_PRODUCTS" THEN NothingWritten
  ELSE ExportSingleWrites(handler.read, handler.username, handler.productId,
                          handler.result, time)

\* a storage that keeps the sellers the blob does not name
setItemPerSeller(stored, blob) == Spread(stored, blob)

\* storage.setItem("local:profiles", profiles): the item is replaced
setItem(stored, blob) == blob

\* the listings a page of the seller shows
PageListings(username) ==
  IF username = "alice" THEN {BaseListing("a"), BaseListing("b")}
  ELSE {BaseListing("a")}

\* the listener takes a message; the handler's getItem returns the profiles
Received(slot, handler) ==
  /\ handlers[slot].type = "free"
  /\ now < MaxTime
  /\ handlers' = [handlers EXCEPT ![slot] = Spread(handler, [read |-> profiles])]
  /\ now' = now + 1
  /\ UNCHANGED <<profiles, lastWrite>>

ReceiveSaveProducts ==
  /\ \E slot \in Slots, username \in Usernames :
       \E newProducts \in SeqsUpTo(PageListings(username), 1) :
         Received(slot, [FreeHandler EXCEPT !.type = "SAVE_PRODUCTS",
                                            !.username = username,
                                            !.newProducts = newProducts])
  /\ UNCHANGED <<last, exportVars, resolveVars, classifyVars, tabVars,
                 concurrentVars, scrapeVars>>

ReceiveSaveProductDetails ==
  /\ \E slot \in Slots, username \in Usernames, adId \in AdIds :
       \E detail \in DetailsOfAd(adId) :
         Received(slot, [FreeHandler EXCEPT !.type = "SAVE_PRODUCT_DETAILS",
                                            !.username = username,
                                            !.detail = detail])
  /\ UNCHANGED <<last, exportVars, resolveVars, classifyVars, tabVars,
                 concurrentVars, scrapeVars>>

ReceiveMarkMissing ==
  /\ \E slot \in Slots, username \in Usernames, currentIds \in SUBSET AdIds :
       Received(slot, [FreeHandler EXCEPT !.type = "MARK_MISSING_AS_REMOVED",
                                          !.username = username,
                                          !.currentIds = currentIds])
  /\ UNCHANGED <<last, exportVars, resolveVars, classifyVars, tabVars,
                 concurrentVars, scrapeVars>>

\* EXPORT_SINGLE_TO_ODOO: exportProduct has returned, the handler reads the store
ReceiveExportSingle ==
  /\ \E slot \in Slots, username \in Usernames, productId \in AdIds :
       \E result \in ExportOutcomes :
         Received(slot, [FreeHandler EXCEPT !.type = "EXPORT_SINGLE_TO_ODOO",
                                            !.username = username,
                                            !.productId = productId,
                                            !.result = result])
  /\ UNCHANGED <<last, exportVars, resolveVars, classifyVars, tabVars,
                 concurrentVars, scrapeVars>>

\* GET_COMBINED_PRODUCTS: getProfile reads the store
ReceiveGetCombinedProducts ==
  /\ \E slot \in Slots, username \in Usernames :
       Received(slot, [FreeHandler EXCEPT !.type = "GET_COMBINED_PRODUCTS",
                                          !.username = username])
  /\ UNCHANGED <<last, exportVars, resolveVars, classifyVars, tabVars,
                 concurrentVars, scrapeVars>>

\* the handler goes on from its getItem to its setItem, or to its return
Finish ==
  /\ \E slot \in Slots :
       /\ handlers[slot].type # "free"
       /\ LET w == WritesOf(handlers[slot], now + 1) IN
          /\ profiles' = IF w.wrote THEN setItem(profiles, w.blob) ELSE profiles
          /\ lastWrite' = [handler |-> handlers[slot], overwritten |-> profiles,
                           time |-> now + 1, wrote |-> w.wrote,
                           combined |->
                             IF handlers[slot].type = "GET_COMBINED_PRODUCTS"
                               THEN getCombinedProducts(handlers[slot].read,
                                                        handlers[slot].username)
                               ELSE <<>>]
       /\ handlers' = [handlers EXCEPT ![slot] = FreeHandler]
       /\ now' = now + 1
  /\ UNCHANGED <<last, exportVars, resolveVars, classifyVars, tabVars,
                 concurrentVars, scrapeVars>>

NextStorage ==
  \/ ReceiveGetCombinedProducts
  \/ ReceiveSaveProducts
  \/ ReceiveSaveProductDetails
  \/ ReceiveMarkMissing
  \/ ReceiveExportSingle
  \/ Finish

SpecStorage == Init /\ [][NextStorage]_vars

(***************************************************************************)
(* The content script on a seller's profile page: autoScrape, and the walk *)
(* of scrapeAllPages that the button starts.  The seller's pages show one  *)
(* ad each; the page buttons and the next page button are what the         *)
(* document has at the time.                                               *)
(***************************************************************************)
\* the most pages a seller's profile has
MaxPages == 3

\* the seller whose profile page is open
currentUsername == "alice"

\* the seller's pages: the id of the ad each one shows
SellerPages == SeqsUpTo(Ids, MaxPages) \ {<<>>}

\* autoScrape: the page shown is scraped and saved; nothing is marked
AutoScrape ==
  /\ scrape.step = "idle"
  /\ \E id \in Ids : handleSaveProducts(currentUsername, <<BaseListing(id)>>)
  /\ UNCHANGED <<scrapeVars, exportVars, resolveVars, classifyVars, tabVars,
                 asyncVars, concurrentVars>>

\* the click on the button: scrapeAllPages counts the page buttons; the page
\* shown is any page of the seller
ClickScrapeButton ==
  /\ scrape.step = "idle"
  /\ \E pages \in SellerPages :
       \E totalPages \in 0..Len(pages), shown \in 1..Len(pages) :
         scrape' = [NoWalk EXCEPT !.step = IF totalPages = 0 THEN "mark" ELSE "loop",
                                  !.pages = pages,
                                  !.totalPages = totalPages,
                                  !.pageNum = 1,
                                  !.shown = shown]
  /\ UNCHANGED <<page, storeVars, exportVars, resolveVars, classifyVars, tabVars,
                 asyncVars, concurrentVars>>

\* one turn of the loop: the page shown is scraped, then the button of the next
\* page is clicked, when the document has it and it is enabled
ScrapePage ==
  /\ scrape.step = "loop"
  /\ LET id == scrape.pages[scrape.shown]
         seen == id \in scrape.scrapedIdsSet
         scraped == [scrape EXCEPT
                       !.visited = @ \cup {scrape.shown},
                       !.scrapedIdsSet = @ \cup {id},
                       !.allProducts = IF seen THEN @ ELSE Append(@, BaseListing(id))]
     IN IF scrape.pageNum < scrape.totalPages
          THEN \E nextPageButton \in BOOLEAN :
                 scrape' = IF nextPageButton
                             THEN [scraped EXCEPT !.pageNum = @ + 1,
                                                  !.shown = scrape.pageNum + 1]
                             ELSE [scraped EXCEPT !.stopped = TRUE, !.step = "mark"]
          ELSE scrape' = [scraped EXCEPT !.step = "mark"]
  /\ UNCHANGED <<page, storeVars, exportVars, resolveVars, classifyVars, tabVars,
                 asyncVars, concurrentVars>>

\* await markMissingProductsAsRemoved(username, scrapedIdsSet)
MarkMissingProducts ==
  /\ scrape.step = "mark"
  /\ markMissingAsRemoved(currentUsername, scrape.scrapedIdsSet)
  /\ scrape' = [scrape EXCEPT !.step = "save", !.marked = TRUE,
                              !.currentIds = scrape.scrapedIdsSet]
  /\ UNCHANGED <<page, exportVars, resolveVars, classifyVars, tabVars,
                 asyncVars, concurrentVars>>

\* const stats = await saveProducts(username, allProducts)
SaveAllProducts ==
  /\ scrape.step = "save"
  /\ handleSaveProducts(currentUsername, scrape.allProducts)
  /\ scrape' = NoWalk
  /\ UNCHANGED <<page, exportVars, resolveVars, classifyVars, tabVars,
                 asyncVars, concurrentVars>>

NextScrape ==
  \/ AutoScrape
  \/ ClickScrapeButton
  \/ ScrapePage
  \/ MarkMissingProducts
  \/ SaveAllProducts

SpecScrape == Init /\ [][NextScrape]_vars

(***************************************************************************)
(* The content script across navigation inside the site: the document      *)
(* stays, the URL changes, checkAndHandlePage runs again.  A profile page   *)
(* shows one ad of its seller at a time.                                   *)
(***************************************************************************)
\* the ads of each seller: the ids are those of the site, no two sellers share one
AdsOf(username) ==
  IF username = "alice" THEN {"a"}
  ELSE IF username = "bob" THEN {"b", "c"}
  ELSE {}

\* the URL changes to a seller's profile or to a page that is no profile;
\* checkAndHandlePage on a profile page: currentUsername, then waitForPageLoad
NavigateTo ==
  /\ \E username \in Usernames \cup {""} :
       /\ username # page.location
       /\ \E shown \in IF username = "" THEN {""} ELSE AdsOf(username) :
            page' = [page EXCEPT
                       !.location = username,
                       !.shown = shown,
                       !.loading = IF username = "" THEN @ ELSE @ \cup {username}]
  /\ UNCHANGED <<scrape, storeVars, exportVars, resolveVars, classifyVars, tabVars,
                 asyncVars, concurrentVars>>

\* the seller's profile shows its next page: other articles in the document
ShowNextPage ==
  /\ page.location # ""
  /\ \E shown \in AdsOf(page.location) \ {page.shown} :
       page' = [page EXCEPT !.shown = shown]
  /\ UNCHANGED <<scrape, storeVars, exportVars, resolveVars, classifyVars, tabVars,
                 asyncVars, concurrentVars>>

\* setupPaginationWatcher(username): if (isObserving) return
setupPaginationWatcher(watcher, username) == IF watcher = "" THEN username ELSE watcher

\* waitForPageLoad has found articles: autoScrape(username) scrapes the page
\* shown and saves it, unless the page is no profile;
\* setupPaginationWatcher(username)
PageLoaded ==
  /\ \E username \in page.loading :
       /\ page.shown # ""
       /\ page' = [page EXCEPT
                     !.loading = @ \ {username},
                     !.scrapedIds = @ \cup {page.shown},
                     !.watcher = setupPaginationWatcher(@, username)]
       /\ handleSaveProducts(username, <<BaseListing(page.shown)>>)
  /\ UNCHANGED <<scrape, exportVars, resolveVars, classifyVars, tabVars,
                 asyncVars, concurrentVars>>

\* the observer's timeout: scrapeCurrentPage(true) on a profile page, and
\* saveProducts(username, products) when it has found an ad not in scrapedIds
WatcherFires ==
  /\ page.watcher # ""
  /\ page.location # ""
  /\ page.shown \notin page.scrapedIds
  /\ page' = [page EXCEPT !.scrapedIds = @ \cup {page.shown}]
  /\ handleSaveProducts(page.watcher, <<BaseListing(page.shown)>>)
  /\ UNCHANGED <<scrape, exportVars, resolveVars, classifyVars, tabVars,
                 asyncVars, concurrentVars>>

NextNavigate ==
  \/ NavigateTo
  \/ ShowNextPage
  \/ PageLoaded
  \/ WatcherFires

SpecNavigate == Init /\ [][NextNavigate]_vars

(***************************************************************************)
(* The classifier called on its own, on any title.                         *)
(***************************************************************************)
Unclassified == <<"?">>

InitClassify ==
  /\ profiles = EmptyObject
  /\ last = NoRequest
  /\ NoExport
  /\ NoResolve
  /\ classify \in [title : Titles, tags : {Unclassified}, category : {"?"}]
  /\ NoTabs
  /\ NoHandlers
  /\ NoExports
  /\ NoScrape

\* const tags = this.getTags(product)
GetTags ==
  /\ classify.tags = Unclassified
  /\ classify' = [classify EXCEPT !.tags = getTags([title |-> classify.title])]
  /\ UNCHANGED <<otherVars, storeVars, exportVars, resolveVars, tabVars>>

\* const category = this.getCategory(product)
GetCategory ==
  /\ classify.category = "?"
  /\ classify' = [classify EXCEPT !.category = getCategory([title |-> classify.title])]
  /\ UNCHANGED <<otherVars, storeVars, exportVars, resolveVars, tabVars>>

NextClassify ==
  \/ GetTags
  \/ GetCategory

SpecClassify == InitClassify /\ [][NextClassify]_vars

(***************************************************************************)
(* services/odoo.ts: the HTTP exchanges.  A response is named by what the  *)
(* client sees of it: the fetch is rejected, the status is not a success,  *)
(* the status is a success with a content type that is not JSON, with a    *)
(* JSON content type and a body that does not parse, or with JSON.         *)
(***************************************************************************)
NoError == ""

NoJsonResponses == {"network_error", "http_error", "not_json", "malformed_json"}

\* search_read answers with an array of records: none, or a first one with an id
SearchResponses == NoJsonResponses \cup {"empty", "found"}

\* create answers with the ids as an array or with the id alone
CreateResponses == NoJsonResponses \cup {"id_array", "id"}

\* write and action_archive: the body of a success is not read
StatusResponses == {"network_error", "http_error", "not_json", "ok"}

\* the id of the remote record that bears the name of the product, when the
\* remote has one, the id it gives a new record, and the id of a reference
RemoteIdOf(product) ==
  IF product.id = "a" THEN "p1" ELSE IF product.id = "b" THEN "p2" ELSE "p3"
NewProductId == "p4"
ReferenceId == "r1"
OtherReferenceId == "r2"

\* records[0].id of a lookup answered with records
IdIn(response) == IF response = "found_other" THEN OtherReferenceId ELSE ReferenceId

\* await fetch(...); await this.raiseForStatus(response)
raiseForStatus(response) ==
  IF response = "network_error" THEN "TypeError: Failed to fetch"
  ELSE IF response = "http_error" THEN "Error: HTTP error"
  ELSE NoError

\* ... followed by await this.parseJsonResponse(response)
parseJsonResponse(response) ==
  IF raiseForStatus(response) # NoError THEN raiseForStatus(response)
  ELSE IF response = "not_json" THEN "Error: Expected JSON response"
  ELSE IF response = "malformed_json" THEN "Error: Failed to parse JSON response"
  ELSE NoError

(***************************************************************************)
(* The reference data resolver: each get...Id returns the error it throws  *)
(* (NoError when it returns), the id it returns and the cache it leaves.   *)
(* The response is read on a cache miss only.                              *)
(***************************************************************************)
Returned(id, cache) == [error |-> NoError, id |-> id, cache |-> cache]
Threw(error, cache) == [error |-> error, id |-> Null, cache |-> cache]

\* a getCategoryId that returns null for a category the remote does not have
getCategoryIdOrNull(cache, categoryName, response) ==
  IF categoryName \in DOMAIN cache THEN Returned(cache[categoryName], cache)
  ELSE IF parseJsonResponse(response) # NoError
         THEN Threw(parseJsonResponse(response), cache)
  ELSE IF response = "empty" THEN Returned(Null, cache)
  ELSE Returned(IdIn(response), Put(cache, categoryName, IdIn(response)))

getCategoryId(cache, categoryName, response) ==
  IF categoryName \in DOMAIN cache THEN Returned(cache[categoryName], cache)
  ELSE IF parseJsonResponse(response) # NoError
         THEN Threw(parseJsonResponse(response), cache)
  ELSE IF response = "empty" THEN Threw("Error: Category not found in Odoo.", cache)
  ELSE Returned(IdIn(response), Put(cache, categoryName, IdIn(response)))

\* a getPublicCategoryId that remembers that the remote has no such category
getPublicCategoryIdCachingNone(cache, categoryName, response) ==
  IF categoryName \in DOMAIN cache THEN Returned(cache[categoryName], cache)
  ELSE IF parseJsonResponse(response) # NoError
         THEN Threw(parseJsonResponse(response), cache)
  ELSE IF response = "empty" THEN Returned(Null, Put(cache, categoryName, Null))
  ELSE Returned(IdIn(response), Put(cache, categoryName, IdIn(response)))

getPublicCategoryId(cache, categoryName, response) ==
  IF categoryName \in DOMAIN cache THEN Returned(cache[categoryName], cache)
  ELSE IF parseJsonResponse(response) # NoError
         THEN Threw(parseJsonResponse(response), cache)
  ELSE IF response = "empty" THEN Returned(Null, cache)
  ELSE Returned(IdIn(response), Put(cache, categoryName, IdIn(response)))

\* a getTagId that never fills the cache
getTagIdUncached(cache, tagName, response) ==
  IF tagName \in DOMAIN cache THEN Returned(cache[tagName], cache)
  ELSE IF parseJsonResponse(response) # NoError
         THEN Threw(parseJsonResponse(response), cache)
  ELSE IF response = "empty" THEN Threw("Error: Tag not found in Odoo.", cache)
  ELSE Returned(IdIn(response), cache)

getTagId(cache, tagName, response) ==
  IF tagName \in DOMAIN cache THEN Returned(cache[tagName], cache)
  ELSE IF parseJsonResponse(response) # NoError
         THEN Threw(parseJsonResponse(response), cache)
  ELSE IF response = "empty" THEN Threw("Error: Tag not found in Odoo.", cache)
  ELSE Returned(IdIn(response), Put(cache, tagName, IdIn(response)))

getTaxId(cache, response) ==
  IF taxName \in DOMAIN cache THEN Returned(cache[taxName], cache)
  ELSE IF parseJsonResponse(response) # NoError
         THEN Threw(parseJsonResponse(response), cache)
  ELSE IF response = "empty" THEN Threw("Error: Tax not found in Odoo.", cache)
  ELSE Returned(IdIn(response), Put(cache, taxName, IdIn(response)))

\* the answers a lookup can get: none is read when the name is cached
ResponsesFor(cache, name) ==
  IF name \in DOMAIN cache THEN {"cached"} ELSE SearchResponses

(***************************************************************************)
(* The resolver called on its own: any get...Id, for any name, in any      *)
(* order, the remote answering as it likes.  MaxLookups bounds the answers  *)
(* with a record that are counted per name.                                *)
(***************************************************************************)
MaxLookups == 2

\* the answers to a lookup, the remote naming one record or another
ResolveResponses(cache, name) ==
  IF name \in DOMAIN cache THEN {"cached"} ELSE SearchResponses \cup {"found_other"}

\* the call returns or throws r; the remote has answered response
Resolved(kind, name, response, before, r) ==
  /\ remoteLookups[kind][name] < MaxLookups
  /\ lastCall' = [kind |-> kind, name |-> name, response |-> response,
                  error |-> r.error, id |-> r.id, before |-> before]
  /\ remoteLookups' =
       IF response \in {"found", "found_other"}
         THEN [remoteLookups EXCEPT ![kind][name] = @ + 1]
         ELSE remoteLookups

GetTagId ==
  /\ \E tagName \in ResolvedTags :
       \E response \in ResolveResponses(TAGS_ID_CACHE, tagName) :
         LET r == getTagId(TAGS_ID_CACHE, tagName, response) IN
         /\ TAGS_ID_CACHE' = r.cache
         /\ Resolved("tag", tagName, response, TAGS_ID_CACHE, r)
  /\ UNCHANGED <<otherVars, CATEGORY_ID_CACHE, PUBLIC_CATEGORY_ID_CACHE, TAX_ID_CACHE,
                 storeVars, runVars, classifyVars, tabVars>>

GetCategoryId ==
  /\ \E categoryName \in ResolvedCategories :
       \E response \in ResolveResponses(CATEGORY_ID_CACHE, categoryName) :
         LET r == getCategoryId(CATEGORY_ID_CACHE, categoryName, response) IN
         /\ CATEGORY_ID_CACHE' = r.cache
         /\ Resolved("category", categoryName, response, CATEGORY_ID_CACHE, r)
  /\ UNCHANGED <<otherVars, TAGS_ID_CACHE, PUBLIC_CATEGORY_ID_CACHE, TAX_ID_CACHE,
                 storeVars, runVars, classifyVars, tabVars>>

GetPublicCategoryId ==
  /\ \E categoryName \in ResolvedCategories :
       \E response \in ResolveResponses(PUBLIC_CATEGORY_ID_CACHE, categoryName) :
         LET r == getPublicCategoryId(PUBLIC_CATEGORY_ID_CACHE, categoryName, response)
         IN /\ PUBLIC_CATEGORY_ID_CACHE' = r.cache
            /\ Resolved("public_category", categoryName, response,
                        PUBLIC_CATEGORY_ID_CACHE, r)
  /\ UNCHANGED <<otherVars, TAGS_ID_CACHE, CATEGORY_ID_CACHE, TAX_ID_CACHE,
                 storeVars, runVars, classifyVars, tabVars>>

GetTaxId ==
  /\ \E response \in ResolveResponses(TAX_ID_CACHE, taxName) :
       LET r == getTaxId(TAX_ID_CACHE, response) IN
       /\ TAX_ID_CACHE' = r.cache
       /\ Resolved("tax", taxName, response, TAX_ID_CACHE, r)
  /\ UNCHANGED <<otherVars, TAGS_ID_CACHE, CATEGORY_ID_CACHE, PUBLIC_CATEGORY_ID_CACHE,
                 storeVars, runVars, classifyVars, tabVars>>

\* the cache of a kind of reference
CacheOf(kind) ==
  IF kind = "tag" THEN TAGS_ID_CACHE
  ELSE IF kind = "category" THEN CATEGORY_ID_CACHE
  ELSE IF kind = "public_category" THEN PUBLIC_CATEGORY_ID_CACHE
  ELSE TAX_ID_CACHE

NextResolve ==
  \/ GetTagId
  \/ GetCategoryId
  \/ GetPublicCategoryId
  \/ GetTaxId

SpecResolve == Init /\ [][NextResolve]_vars

(***************************************************************************)
(* exportProduct and the loop of exportProducts around it.                 *)
(***************************************************************************)
\* a branch that archives sold products only
DecideArchivingSold(existing, product, overwrite) ==
  IF existing = Null THEN "create"
  ELSE IF product.state = SOLD THEN "archive"
  ELSE IF overwrite THEN "update"
  ELSE "skip"

\* a branch that looks at overwrite before it looks at the state
DecideUpdatingFirst(existing, product, overwrite) ==
  IF existing = Null THEN "create"
  ELSE IF overwrite THEN "update"
  ELSE IF product.state = SOLD \/ product.state = REMOVED THEN "archive"
  ELSE "skip"

\* the branch exportProduct takes once searchProduct has returned
Decide(existing, product, overwrite) ==
  IF existing = Null THEN "create"
  ELSE IF product.state = SOLD \/ product.state = REMOVED THEN "archive"
  ELSE IF overwrite THEN "update"
  ELSE "skip"

\* a catch block that drops the message
ExportResultWithoutMessage(error) == [success |-> FALSE]

\* a catch block that reports a success
ExportResultSucceeding(error) == [success |-> TRUE]

\* the object the catch block returns
ExportResultOnError(error) == [success |-> FALSE, error |-> error]

\* a property that is set and true
Flag(result, k) == k \in DOMAIN result /\ result[k] = TRUE

\* a loop that stops at the first failure
LoopUntilFailure(result, i) ==
  IF ~result.success \/ i + 1 > Len(products) THEN "returned" ELSE "search"

\* for (const product of products): the loop goes on whatever the result
LoopAfter(result, i) == IF i + 1 > Len(products) THEN "returned" ELSE "search"

\* a request on product.template, as the remote receives it
Request(op, ids, found, response) ==
  [index |-> index, op |-> op, ids |-> ids, found |-> found, response |-> response,
   name |-> IF op = "search_read" THEN products[index].title
            ELSE IF op = "action_archive" THEN <<>>
            ELSE productData.name]

\* a loop body that forgets to count the updates
ReturnWithoutUpdates(result, error) ==
  /\ results' = Append(results, result)
  /\ raised' = Append(raised, error)
  /\ created' = IF result.success /\ Flag(result, "created") THEN created + 1 ELSE created
  /\ updated' = updated
  /\ archived' =
       IF result.success /\ Flag(result, "archived") THEN archived + 1 ELSE archived
  /\ errors' =
       IF ~result.success /\ "error" \in DOMAIN result /\ result.error # ""
         THEN Append(errors, [productId |-> products[index].id, error |-> result.error])
         ELSE errors
  /\ index' = index + 1
  /\ pc' = LoopAfter(result, index)
  /\ existingProductId' = Null
  /\ productData' = EmptyObject

\* a loop that goes on to the next product without the outcome of this one
ReturnUnsettled(result, error) ==
  /\ results' = results
  /\ raised' = raised
  /\ created' = created
  /\ updated' = updated
  /\ archived' = archived
  /\ errors' = errors
  /\ index' = index + 1
  /\ pc' = LoopAfter(result, index)
  /\ existingProductId' = Null
  /\ productData' = EmptyObject

\* exportProduct returns result: the body of the loop of exportProducts
Return(result, error) ==
  /\ results' = Append(results, result)
  /\ raised' = Append(raised, error)
  /\ created' = IF result.success /\ Flag(result, "created") THEN created + 1 ELSE created
  /\ updated' = IF result.success /\ Flag(result, "updated") THEN updated + 1 ELSE updated
  /\ archived' =
       IF result.success /\ Flag(result, "archived") THEN archived + 1 ELSE archived
  /\ errors' =
       IF ~result.success /\ "error" \in DOMAIN result /\ result.error # ""
         THEN Append(errors, [productId |-> products[index].id, error |-> result.error])
         ELSE errors
  /\ index' = index + 1
  /\ pc' = LoopAfter(result, index)
  /\ existingProductId' = Null
  /\ productData' = EmptyObject

\* an error thrown inside the try block
Catch(error) == Return(ExportResultOnError(error), error)

\* exportProduct goes on to its next await
Goto(next) ==
  /\ pc' = next
  /\ UNCHANGED <<results, raised, created, updated, archived, errors, index>>

\* const existingProductId = await this.searchProduct(product), and the branch
SearchProduct ==
  /\ pc = "search"
  /\ \E response \in SearchResponses :
       LET found == IF response = "found" THEN RemoteIdOf(products[index]) ELSE Null
           branch == Decide(found, products[index], overwriteExisting)
       IN /\ calls' = Append(calls, Request("search_read", <<>>, found, response))
          /\ IF parseJsonResponse(response) # NoError
               THEN Catch(parseJsonResponse(response))
             ELSE IF branch = "skip"
               THEN Return([success |-> TRUE, productId |-> found], NoError)
             ELSE /\ existingProductId' = found
                  /\ productData' = productData
                  /\ Goto(IF branch = "archive" THEN "archive" ELSE "tags")
  /\ UNCHANGED <<otherVars, message, products, overwriteExisting, cacheVars, storeVars,
                 resolveVars, classifyVars, tabVars>>

\* productToOdooDict, called by createProduct and by updateProduct:
\* const tagsIds = await Promise.all(tags.map((tag) => this.getTagId(tag))).
\* The lookups run side by side, each on the cache as it was; every one that
\* succeeds fills the cache, the first one to fail is the error thrown.
ResolveTags ==
  /\ pc = "tags"
  /\ LET tags == getTags(products[index]) IN
     \E responses \in [1..Len(tags) -> SearchResponses \cup {"cached"}] :
       /\ \A i \in 1..Len(tags) : responses[i] \in ResponsesFor(TAGS_ID_CACHE, tags[i])
       /\ LET lookups == [i \in 1..Len(tags) |->
                            getTagId(TAGS_ID_CACHE, tags[i], responses[i])]
              failed == {i \in 1..Len(tags) : lookups[i].error # NoError}
          IN /\ TAGS_ID_CACHE' =
                  [t \in (DOMAIN TAGS_ID_CACHE) \cup
                         {tags[i] : i \in (1..Len(tags)) \ failed} |-> ReferenceId]
             /\ IF failed # {}
                  THEN \E first \in failed : Catch(lookups[first].error)
                  ELSE /\ productData' =
                            [name |-> products[index].title,
                             list_price |-> products[index].price,
                             website_published |-> TRUE,
                             qty_available |-> 1,
                             product_tag_ids |->
                               [i \in 1..Len(tags) |-> lookups[i].id]]
                       /\ existingProductId' = existingProductId
                       /\ Goto("tax")
  /\ UNCHANGED <<otherVars, message, products, overwriteExisting, calls, CATEGORY_ID_CACHE,
                 PUBLIC_CATEGORY_ID_CACHE, TAX_ID_CACHE,
                 storeVars, resolveVars, classifyVars, tabVars>>

\* const taxId = await this.getTaxId()
ResolveTax ==
  /\ pc = "tax"
  /\ \E response \in ResponsesFor(TAX_ID_CACHE, taxName) :
       LET tax == getTaxId(TAX_ID_CACHE, response) IN
       /\ TAX_ID_CACHE' = tax.cache
       /\ IF tax.error # NoError
            THEN Catch(tax.error)
            ELSE /\ productData' = Spread(productData, [taxes_id |-> <<tax.id>>])
                 /\ existingProductId' = existingProductId
                 /\ Goto("images")
  /\ UNCHANGED <<otherVars, message, products, overwriteExisting, calls, TAGS_ID_CACHE,
                 CATEGORY_ID_CACHE, PUBLIC_CATEGORY_ID_CACHE,
                 storeVars, resolveVars, classifyVars, tabVars>>

\* const { firstImage, imageIds } = await this.loadImages(product): the first
\* photo as base64; a download that fails is logged and leaves no image
LoadImages ==
  /\ pc = "images"
  /\ \E download \in IF Len(products[index].photos) = 0
                       THEN {"none"} ELSE {"ok", "failed"} :
       productData' = IF download = "ok"
                        THEN Spread(productData, [image_1920 |-> "base64"])
                        ELSE productData
  /\ existingProductId' = existingProductId
  /\ Goto(IF getCategory(products[index]) # Null
            THEN "category"
            ELSE IF existingProductId = Null THEN "create_request"
            ELSE "write_request")
  /\ UNCHANGED <<otherVars, message, products, overwriteExisting, calls, cacheVars,
                 storeVars, resolveVars, classifyVars, tabVars>>

\* productData.categ_id = await this.getCategoryId(category), in the try block
\* whose catch only logs
ResolveCategory ==
  /\ pc = "category"
  /\ LET category == getCategory(products[index]) IN
     \E response \in ResponsesFor(CATEGORY_ID_CACHE, category) :
       LET categ == getCategoryId(CATEGORY_ID_CACHE, category, response) IN
       /\ CATEGORY_ID_CACHE' = categ.cache
       /\ IF categ.error # NoError
            THEN /\ productData' = productData
                 /\ Goto(IF existingProductId = Null THEN "create_request"
                         ELSE "write_request")
            ELSE /\ productData' = Spread(productData, [categ_id |-> categ.id])
                 /\ Goto("public_category")
  /\ existingProductId' = existingProductId
  /\ UNCHANGED <<otherVars, message, products, overwriteExisting, calls, TAGS_ID_CACHE,
                 PUBLIC_CATEGORY_ID_CACHE, TAX_ID_CACHE,
                 storeVars, resolveVars, classifyVars, tabVars>>

\* const publicCategoryId = await this.getPublicCategoryId(category), in the
\* same try block
ResolvePublicCategory ==
  /\ pc = "public_category"
  /\ LET category == getCategory(products[index]) IN
     \E response \in ResponsesFor(PUBLIC_CATEGORY_ID_CACHE, category) :
       LET public == getPublicCategoryId(PUBLIC_CATEGORY_ID_CACHE, category, response)
       IN /\ PUBLIC_CATEGORY_ID_CACHE' = public.cache
          /\ productData' =
               IF public.error = NoError /\ public.id # Null
                 THEN Spread(productData, [public_categ_ids |-> <<public.id>>])
                 ELSE productData
  /\ existingProductId' = existingProductId
  /\ Goto(IF existingProductId = Null THEN "create_request" ELSE "write_request")
  /\ UNCHANGED <<otherVars, message, products, overwriteExisting, calls, TAGS_ID_CACHE,
                 CATEGORY_ID_CACHE, TAX_ID_CACHE,
                 storeVars, resolveVars, classifyVars, tabVars>>

\* createProduct: POST /product.template/create
CreateRequest ==
  /\ pc = "create_request"
  /\ \E response \in CreateResponses :
       /\ calls' = Append(calls, Request("create", <<>>, Null, response))
       /\ IF parseJsonResponse(response) # NoError
            THEN Catch(parseJsonResponse(response))
            ELSE Return([success |-> TRUE, productId |-> NewProductId,
                         created |-> TRUE], NoError)
  /\ UNCHANGED <<otherVars, message, products, overwriteExisting, cacheVars, storeVars,
                 resolveVars, classifyVars, tabVars>>

\* updateProduct: POST /product.template/write
WriteRequest ==
  /\ pc = "write_request"
  /\ \E response \in StatusResponses :
       /\ calls' = Append(calls, Request("write", <<existingProductId>>, Null,
                                          response))
       /\ IF raiseForStatus(response) # NoError
            THEN Catch(raiseForStatus(response))
            ELSE Return([success |-> TRUE, productId |-> existingProductId,
                         updated |-> TRUE], NoError)
  /\ UNCHANGED <<otherVars, message, products, overwriteExisting, cacheVars, storeVars,
                 resolveVars, classifyVars, tabVars>>

\* archiveProduct: POST /product.template/action_archive
ArchiveRequest ==
  /\ pc = "archive"
  /\ \E response \in StatusResponses :
       /\ calls' = Append(calls, Request("action_archive", <<existingProductId>>,
                                          Null, response))
       /\ IF raiseForStatus(response) # NoError
            THEN Catch(raiseForStatus(response))
            ELSE Return([success |-> TRUE, productId |-> existingProductId,
                         archived |-> TRUE], NoError)
  /\ UNCHANGED <<otherVars, message, products, overwriteExisting, cacheVars, storeVars,
                 resolveVars, classifyVars, tabVars>>

\* what exportProducts returns
BulkResult ==
  [success |-> Len(errors) = 0, created |-> created, updated |-> updated,
   archived |-> archived, errors |-> errors]

(***************************************************************************)
(* One call of exportProducts, from the first product to the return.       *)
(***************************************************************************)
WagonJouef == <<"W", "a", "g", "o", "n", " ", "J", "o", "u", "e", "f">>
RailsLima == <<"R", "a", "i", "l", "s", " ", "L", "i", "m", "a">>
TrainWagonSNCFBleu ==
  <<"T", "r", "a", "i", "n", " ", "W", "a", "g", "o", "n", " ", "S", "N", "C", "F",
    " ", "b", "l", "e", "u">>

\* the products of a seller's profile that can be sent for export: the ids are
\* the keys of the profile's listings, one product each
ExportableProducts ==
  {[id |-> "a", title |-> WagonJouef, price |-> 10, state |-> ACTIVE,
    photos |-> <<"photo1">>],
   [id |-> "b", title |-> RailsLima, price |-> 20, state |-> SOLD, photos |-> <<>>],
   [id |-> "c", title |-> TrainWagonSNCFBleu, price |-> 10, state |-> REMOVED, photos |-> <<>>]}

\* /Train wagon/gi, lowercased
TrainWagon == <<"t", "r", "a", "i", "n", " ", "w", "a", "g", "o", "n">>

\* title.replace(/Train wagon/gi, ""): the occurrences found from the left, one
\* after the other, are left out
RECURSIVE ReplaceFrom(_, _)
ReplaceFrom(s, i) ==
  IF i > Len(s) THEN <<>>
  ELSE IF /\ i + Len(TrainWagon) - 1 <= Len(s)
          /\ toLowerCase(SubSeq(s, i, i + Len(TrainWagon) - 1)) = TrainWagon
         THEN ReplaceFrom(s, i + Len(TrainWagon))
         ELSE <<s[i]>> \o ReplaceFrom(s, i + 1)

\* String.prototype.trim
RECURSIVE trim(_)
trim(s) ==
  IF Len(s) = 0 THEN s
  ELSE IF s[1] \in Whitespace THEN trim(Tail(s))
  ELSE IF s[Len(s)] \in Whitespace THEN trim(SubSeq(s, 1, Len(s) - 1))
  ELSE s

\* a map that passes the product on as it came
cleanedProductAsSent(p) == p

\* { ...p, title: p.title.replace(/Train wagon/gi, "").trim() }
cleanedProduct(p) == [p EXCEPT !.title = trim(ReplaceFrom(p.title, 1))]

\* products.map(...)
cleanedProducts(sent) == [i \in 1..Len(sent) |-> cleanedProduct(sent[i])]

\* the batches: products of the profile, none twice
Batches ==
  {b \in SeqsUpTo(ExportableProducts, Cardinality(ExportableProducts)) :
     \A i, j \in 1..Len(b) : i # j => b[i].id # b[j].id}

InitExport ==
  /\ profiles = EmptyObject
  /\ last = NoRequest
  /\ message \in Batches
  /\ products = cleanedProducts(message)
  /\ overwriteExisting \in BOOLEAN
  /\ index = 1
  /\ pc = IF Len(products) = 0 THEN "returned" ELSE "search"
  /\ existingProductId = Null
  /\ productData = EmptyObject
  /\ calls = <<>>
  /\ results = <<>>
  /\ raised = <<>>
  /\ created = 0
  /\ updated = 0
  /\ archived = 0
  /\ errors = <<>>
  /\ TAGS_ID_CACHE = EmptyObject
  /\ CATEGORY_ID_CACHE = EmptyObject
  /\ PUBLIC_CATEGORY_ID_CACHE = EmptyObject
  /\ TAX_ID_CACHE = EmptyObject
  /\ NoResolve
  /\ NoClassify
  /\ NoTabs
  /\ NoHandlers
  /\ NoExports
  /\ NoScrape

\* a handler that calls exportProducts(cleanedProducts, false)
exportToOdooKeeping(sent) ==
  /\ message = sent
  /\ products = cleanedProducts(sent)
  /\ overwriteExisting = FALSE

\* exportToOdoo, the handler of EXPORT_TO_ODOO, up to its call:
\* odooService.exportProducts(cleanedProducts, true)
exportToOdoo(sent) ==
  /\ message = sent
  /\ products = cleanedProducts(sent)
  /\ overwriteExisting = TRUE

\* the export as the message interface starts it
InitMessage ==
  /\ InitExport
  /\ \E sent \in Batches : exportToOdoo(sent)

NextExport ==
  \/ SearchProduct
  \/ ResolveTags
  \/ ResolveTax
  \/ LoadImages
  \/ ResolveCategory
  \/ ResolvePublicCategory
  \/ CreateRequest
  \/ WriteRequest
  \/ ArchiveRequest

SpecMessage == InitMessage /\ [][NextExport]_vars

SpecExport == InitExport /\ [][NextExport]_vars

(***************************************************************************)
(* The listing store reconciler: what the last request did.                *)
(***************************************************************************)
Saved == last.type = "SAVE_PRODUCTS"
Marked == last.type = "MARK_MISSING_AS_REMOVED"

\* the seller's listings the request read, and those stored after it
Before == ListingsOf(last.before, last.username)
After == ListingsOf(profiles, last.username)

\* the positions of the batch that carry the id
Occurrences(id) == {i \in 1..Len(last.products) : last.products[i].id = id}
BatchIds == {last.products[i].id : i \in 1..Len(last.products)}

\* the monitored fields in which two listings differ
Differing(l1, l2) == {f \in MonitoredFields : Get(l1, f) # Get(l2, f)}

SameFields(l1, l2) == \A f \in ListingFields : Get(l1, f) = Get(l2, f)

\* C2 as stated: addedCount is the number of incoming listings whose id was not
\* a key of existing, and each of them is stored unchanged under its id.
C2_AddedCountsIncomingListings ==
  Saved =>
    /\ last.added =
         Cardinality({i \in 1..Len(last.products) :
                        last.products[i].id \notin DOMAIN Before})
    /\ \A i \in 1..Len(last.products) :
         last.products[i].id \notin DOMAIN Before =>
           /\ last.products[i].id \in DOMAIN After
           /\ After[last.products[i].id] = last.products[i]

\* C2 amended: addedCount is the number of distinct incoming ids that were not
\* keys of existing, and each such listing whose id occurs once in the batch is
\* stored unchanged under its id.
C2_AddedCountsNewIds ==
  Saved =>
    /\ last.added = Cardinality(BatchIds \ DOMAIN Before)
    /\ \A i \in 1..Len(last.products) :
         LET id == last.products[i].id IN
         (id \notin DOMAIN Before /\ Occurrences(id) = {i}) =>
           /\ id \in DOMAIN After
           /\ After[id] = last.products[i]

C2_Witness ==
  /\ Saved
  /\ DOMAIN Before # {}
  /\ \E i, j \in 1..Len(last.products) :
       /\ i # j
       /\ last.products[i].id = last.products[j].id
       /\ last.products[i].id \notin DOMAIN Before
  /\ last.added = 1

\* C3: an existing listing whose incoming version differs in exactly one
\* monitored field counts as one update, and the merged record carries the
\* incoming value of every field.
C3_OneFieldUpdateTakesIncoming ==
  Saved =>
    /\ \A i \in 1..Len(last.products) :
         LET id == last.products[i].id IN
         (/\ id \in DOMAIN Before
          /\ Occurrences(id) = {i}
          /\ Cardinality(Differing(Before[id], last.products[i])) = 1) =>
           SameFields(After[id], last.products[i])
    /\ (/\ Len(last.products) = 1
        /\ last.products[1].id \in DOMAIN Before
        /\ Cardinality(Differing(Before[last.products[1].id], last.products[1])) = 1)
         => last.updated = 1

\* C4: merging the same batch into the merge's own output adds nothing, updates
\* nothing and returns that output.
C4_MergeIdempotent ==
  Saved =>
    mergeListingsWithStats(After, last.products) =
      [merged |-> After, added |-> 0, updated |-> 0]

C6_AbsentFromBatchUntouched ==
  Saved =>
    /\ DOMAIN Before \subseteq DOMAIN After
    /\ \A id \in (DOMAIN Before) \ BatchIds : After[id] = Before[id]

C6_Witness ==
  /\ Saved
  /\ (DOMAIN Before) \ BatchIds # {}
  /\ \E id \in (DOMAIN Before) \ BatchIds : Before[id].state = REMOVED
  /\ last.updated > 0

\* C7: after markMissingAsRemoved every listing of the seller whose id is not in
\* currentIds is REMOVED, and a listing it changed differs from before in its
\* state only.
C7_AbsentListingsRemoved ==
  (Marked /\ last.username \in DOMAIN last.before) =>
    /\ \A id \in DOMAIN After : id \notin last.currentIds => After[id].state = REMOVED
    /\ \A id \in (DOMAIN Before) \cap (DOMAIN After) :
         After[id] # Before[id] =>
           /\ DOMAIN After[id] = DOMAIN Before[id]
           /\ \A f \in (DOMAIN Before[id]) \ {"state"} : After[id][f] = Before[id][f]

C7_Witness ==
  /\ Marked
  /\ \E id \in DOMAIN Before :
       /\ id \notin last.currentIds
       /\ Before[id].state = SOLD
       /\ After[id].state = REMOVED
       /\ After[id].title = Before[id].title
  /\ \E id \in DOMAIN Before :
       /\ id \notin last.currentIds
       /\ Before[id].state = ACTIVE
       /\ After[id] = Spread(Before[id], [state |-> REMOVED])

\* C8: markMissingAsRemoved changes no listing that is already REMOVED and none
\* whose id is in currentIds; it adds no listing and removes none.
C8_MarkFrame ==
  Marked =>
    /\ DOMAIN After = DOMAIN Before
    /\ \A id \in DOMAIN Before :
         (id \in last.currentIds \/ Before[id].state = REMOVED) =>
           After[id] = Before[id]

C8_Witness ==
  /\ Marked
  /\ \E id \in DOMAIN Before : id \in last.currentIds /\ Before[id].state # REMOVED
  /\ \E id \in DOMAIN Before : id \notin last.currentIds /\ Before[id].state = REMOVED
  /\ After # Before

(***************************************************************************)
(* The synchronisation orchestrator: what an export did, product by        *)
(* product.                                                                *)
(***************************************************************************)
\* the requests of one kind issued for the product at position i
CallsOf(i, op) == {k \in 1..Len(calls) : calls[k].index = i /\ calls[k].op = op}

\* what the search of the product at position i found, Null for nothing
FoundFor(i) == calls[CHOOSE k \in CallsOf(i, "search_read") : TRUE].found

Issued(i, op) == Cardinality(CallsOf(i, op))

\* the one request of the kind issued for the product at position i names ids
IssuedOnceWith(i, op, ids) ==
  /\ Issued(i, op) = 1
  /\ \A k \in CallsOf(i, op) : calls[k].ids = ids

\* C1: for each product exportProduct searches once and takes the one action
\* of the decision table: nothing found - one create, no write, no archive,
\* outcome created; found and SOLD or REMOVED - archive of the found id, outcome
\* archived; found, ACTIVE, overwrite - one write of the found id, outcome
\* updated; found, ACTIVE, no overwrite - no request, outcome success.  The
\* outcome is that of an export no call of which fails; an action outside the
\* row of the table is never taken, and none twice.
C1_DecisionTable ==
  \A i \in 1..Len(results) :
    LET product == products[i]
        found == FoundFor(i)
        gone == product.state \in {SOLD, REMOVED}
    IN /\ Issued(i, "search_read") = 1
       /\ Issued(i, "create") + Issued(i, "write") + Issued(i, "action_archive") <= 1
       /\ found = Null => (Issued(i, "write") = 0 /\ Issued(i, "action_archive") = 0)
       /\ (found # Null /\ gone) => (Issued(i, "create") = 0 /\ Issued(i, "write") = 0)
       /\ (found # Null /\ ~gone /\ overwriteExisting) =>
            (Issued(i, "create") = 0 /\ Issued(i, "action_archive") = 0)
       /\ (found # Null /\ ~gone /\ ~overwriteExisting) =>
            (Issued(i, "create") = 0 /\ Issued(i, "write") = 0
               /\ Issued(i, "action_archive") = 0)
       /\ raised[i] = NoError =>
            /\ found = Null =>
                 /\ Issued(i, "create") = 1
                 /\ results[i] = [success |-> TRUE, productId |-> NewProductId,
                                  created |-> TRUE]
            /\ (found # Null /\ gone) =>
                 /\ IssuedOnceWith(i, "action_archive", <<found>>)
                 /\ results[i] = [success |-> TRUE, productId |-> found,
                                  archived |-> TRUE]
            /\ (found # Null /\ ~gone /\ overwriteExisting) =>
                 /\ IssuedOnceWith(i, "write", <<found>>)
                 /\ results[i] = [success |-> TRUE, productId |-> found,
                                  updated |-> TRUE]
            /\ (found # Null /\ ~gone /\ ~overwriteExisting) =>
                 results[i] = [success |-> TRUE, productId |-> found]

C1_Witness ==
  /\ pc = "returned"
  /\ ~overwriteExisting
  /\ Len(results) = 3
  /\ \A i \in 1..3 : raised[i] = NoError
  /\ \E i \in 1..3 : products[i].state = ACTIVE /\ FoundFor(i) = "p1"
                      /\ DOMAIN results[i] = {"success", "productId"}
  /\ \E i \in 1..3 : products[i].state = SOLD /\ Flag(results[i], "archived")
  /\ \E i \in 1..3 : products[i].state = REMOVED /\ Flag(results[i], "created")

\* C9: exportProduct never lets an error out: whatever is thrown during the
\* search, the mapping, the create, the write or the archive becomes the outcome
\* success = false with the message of the error and none of created, updated,
\* archived; the loop is always at the product after the last outcome.
C9_ErrorsBecomeOutcomes ==
  /\ \A i \in 1..Len(results) :
       /\ raised[i] # NoError =>
            results[i] = [success |-> FALSE, error |-> raised[i]]
       /\ ~results[i].success =>
            /\ raised[i] # NoError
            /\ DOMAIN results[i] \cap {"created", "updated", "archived"} = {}
  /\ Len(raised) = Len(results)
  /\ index = Len(results) + 1
  /\ pc \in {"search", "tags", "tax", "images", "category", "public_category",
             "create_request", "write_request", "archive", "returned"}

C9_Witness ==
  /\ pc = "returned"
  /\ Len(results) = 3
  /\ \A i \in 1..3 : ~results[i].success
  /\ \E i \in 1..3 : raised[i] = "Error: Tax not found in Odoo."
  /\ \E i \in 1..3 : Issued(i, "create") = 1
                      /\ raised[i] = "Error: Failed to parse JSON response"
  /\ \E i \in 1..3 : Issued(i, "action_archive") = 1 /\ raised[i] = "Error: HTTP error"

\* the entries of errors that the failures of the first n products make
RECURSIVE FailuresUpTo(_)
FailuresUpTo(n) ==
  IF n = 0 THEN <<>>
  ELSE IF raised[n] # NoError
         THEN Append(FailuresUpTo(n - 1),
                     [productId |-> products[n].id, error |-> raised[n]])
         ELSE FailuresUpTo(n - 1)

\* C10: a batch is never cut short: every product is searched and gets its
\* outcome whatever happened to those before it, and errors holds exactly one
\* entry {productId, error} per product that failed, in the order of the batch.
C10_BatchNeverAborts ==
  /\ pc = "returned" => Len(results) = Len(products)
  /\ pc # "returned" => index <= Len(products)
  /\ \A i \in 1..Len(results) : CallsOf(i, "search_read") # {}
  /\ errors = FailuresUpTo(Len(results))

C10_Witness ==
  /\ pc = "returned"
  /\ Len(products) = 3
  /\ raised[1] = NoError
  /\ raised[2] # NoError
  /\ Issued(2, "create") = 1
  /\ Issued(3, "search_read") = 1
  /\ results[3].success
  /\ Len(errors) = 1
  /\ errors[1].productId = products[2].id


\* the products of the batch whose outcome is a success with the flag k set
Counted(k) == {i \in 1..Len(results) : results[i].success /\ Flag(results[i], k)}

\* the products that failed, and those left as they were (found, not overwritten)
Failed == {i \in 1..Len(results) : ~results[i].success}
Skipped ==
  {i \in 1..Len(results) :
     results[i].success /\ DOMAIN results[i] \cap {"created", "updated", "archived"} = {}}

\* C11: the batch result is a success exactly when errors is empty, that is when
\* no product failed; created, updated, archived and errors count the products
\* of their kind, every product is of exactly one kind among created, updated,
\* archived, failed and skipped, and at the return the five counts add up to
\* the number of products.
C11_BatchAccounting ==
  /\ BulkResult.success <=> Len(BulkResult.errors) = 0
  /\ BulkResult.success <=> Failed = {}
  /\ created = Cardinality(Counted("created"))
  /\ updated = Cardinality(Counted("updated"))
  /\ archived = Cardinality(Counted("archived"))
  /\ Len(errors) = Cardinality(Failed)
  /\ \A i \in 1..Len(results) :
       Cardinality({k \in {"created", "updated", "archived"} : i \in Counted(k)})
         + (IF i \in Failed THEN 1 ELSE 0) + (IF i \in Skipped THEN 1 ELSE 0) = 1
  /\ pc = "returned" =>
       BulkResult.created + BulkResult.updated + BulkResult.archived
         + Len(BulkResult.errors) + Cardinality(Skipped) = Len(products)

C11_Witness ==
  /\ pc = "returned"
  /\ Len(products) = 3
  /\ Cardinality(Skipped) = 1
  /\ Len(errors) = 1
  /\ created + archived = 1
  /\ ~BulkResult.success


(***************************************************************************)
(* The reference data resolver: what the last get...Id call did.           *)
(***************************************************************************)
\* the kinds whose id the payload cannot do without
RequiredKinds == {"tag", "category", "tax"}

NotFound(kind) ==
  IF kind = "tag" THEN "Error: Tag not found in Odoo."
  ELSE IF kind = "category" THEN "Error: Category not found in Odoo."
  ELSE "Error: Tax not found in Odoo."

\* C12: for a tag, a category or the tax, the remote is asked for a name until
\* it answers with a record and never again: calls for the same name that
\* succeed cost one lookup in all, a call that finds the name in the cache
\* issues no lookup and returns the cached id, and the id a call returns is
\* the id the next call will find in the cache.
C12_SecondCallFromCache ==
  /\ \A kind \in RequiredKinds :
       \A name \in NamesOf(kind) :
         /\ remoteLookups[kind][name] <= 1
         /\ remoteLookups[kind][name] = 1 <=> name \in DOMAIN CacheOf(kind)
  /\ lastCall.kind \in RequiredKinds =>
       /\ lastCall.name \in DOMAIN lastCall.before =>
            /\ lastCall.response = "cached"
            /\ lastCall.error = NoError
            /\ lastCall.id = lastCall.before[lastCall.name]
            /\ CacheOf(lastCall.kind) = lastCall.before
       /\ lastCall.error = NoError =>
            /\ lastCall.name \in DOMAIN CacheOf(lastCall.kind)
            /\ CacheOf(lastCall.kind)[lastCall.name] = lastCall.id

C12_Witness ==
  /\ lastCall.kind = "tag"
  /\ lastCall.response = "cached"
  /\ lastCall.id = OtherReferenceId
  /\ remoteLookups["tag"][lastCall.name] = 1
  /\ remoteLookups["tax"][taxName] = 1
  /\ remoteLookups["category"]["Wagons"] = 1

\* C13: a lookup on a cache miss that the remote answers with no record makes
\* getTagId, getCategoryId and getTaxId throw their not-found error and makes
\* getPublicCategoryId return null; either way the cache is as it was, without
\* the name, and only a call that finds its name in the cache issues no lookup.
C13_EmptyLookup ==
  /\ lastCall.response = "empty" =>
       /\ lastCall.name \notin DOMAIN lastCall.before
       /\ lastCall.id = Null
       /\ lastCall.kind \in RequiredKinds => lastCall.error = NotFound(lastCall.kind)
       /\ lastCall.kind = "public_category" => lastCall.error = NoError
       /\ CacheOf(lastCall.kind) = lastCall.before
       /\ lastCall.name \notin DOMAIN CacheOf(lastCall.kind)
  /\ lastCall.kind # "none" =>
       (lastCall.response = "cached" <=> lastCall.name \in DOMAIN lastCall.before)

C13_Witness ==
  /\ lastCall.kind = "public_category"
  /\ lastCall.response = "empty"
  /\ lastCall.error = NoError
  /\ lastCall.id = Null
  /\ lastCall.before # EmptyObject
  /\ PUBLIC_CATEGORY_ID_CACHE = lastCall.before
  /\ TAGS_ID_CACHE # EmptyObject


(***************************************************************************)
(* The taxonomy classifier: what it found for the title.                   *)
(***************************************************************************)
\* the lowercased tokens of the title that was classified
Tokens == split(toLowerCase(classify.title))

\* some keyword of the entry is a substring of some token
KeywordIn(entry) ==
  \E k \in 1..Len(entry.keywords) :
    \E w \in 1..Len(Tokens) : includes(Tokens[w], entry.keywords[k])

TagSet == {classify.tags[i] : i \in 1..Len(classify.tags)}

\* C14: a tag is among the tags of a title exactly when one of its keywords is
\* a substring of a lowercased token of the title, and the tags of
\* "Wagon Jouef H0 SNCF" are Jouef, H0 and SNCF.
C14_TagsOfTitle ==
  classify.tags # Unclassified =>
    /\ \A t \in 1..Len(TAGS_MAP) : TAGS_MAP[t].name \in TagSet <=> KeywordIn(TAGS_MAP[t])
    /\ classify.title = WagonJouefH0SNCF => TagSet = {"Jouef", "H0", "SNCF"}

\* the categories, from the one that wins to the one that loses
CategoryPriority == <<"Wagons", "Locomotives", "Rails", "Décor", "Coffrets">>

\* the entry of CATEGORY_MAP that bears the name
CategoryEntry(name) ==
  CATEGORY_MAP[CHOOSE c \in 1..Len(CATEGORY_MAP) : CATEGORY_MAP[c].name = name]

\* C15: the category of a title is the first of Wagons, Locomotives, Rails,
\* Décor, Coffrets one keyword of which is a substring of a lowercased token of
\* the title, and none when there is no such category; "Wagon Jouef H0" is of
\* category Wagons.
C15_CategoryByPriority ==
  classify.category # "?" =>
    LET matching == {p \in 1..Len(CategoryPriority) :
                       KeywordIn(CategoryEntry(CategoryPriority[p]))}
    IN /\ {CATEGORY_MAP[c].name : c \in 1..Len(CATEGORY_MAP)}
            = {CategoryPriority[p] : p \in 1..Len(CategoryPriority)}
       /\ matching = {} => classify.category = Null
       /\ matching # {} =>
            \E p \in matching :
              /\ classify.category = CategoryPriority[p]
              /\ \A q \in matching : p <= q
       /\ classify.title = WagonJouefH0 => classify.category = "Wagons"

C15_Witness ==
  /\ classify.category = "Wagons"
  /\ KeywordIn(CategoryEntry("Coffrets"))
  /\ KeywordIn(CategoryEntry("Wagons"))


(***************************************************************************)
(* The remote client: how the answer to a request ends the attempt.        *)
(***************************************************************************)
\* the remote took the request and answered with a success status
Accepted(response) == response \notin {"network_error", "http_error"}

\* C16: searchProduct, createProduct, updateProduct and archiveProduct all
\* throw when the status is not a success and when a success comes with a
\* content type that is not JSON: the product whose request got such an answer
\* fails.
C16_NonJsonAnswerFails ==
  \A k \in 1..Len(calls) :
    (calls[k].response \in {"http_error", "not_json"} /\ calls[k].index <= Len(raised))
      => raised[calls[k].index] # NoError

\* the requests of the product at position i that changed the remote catalog
RemoteChanges(i) ==
  {k \in 1..Len(calls) :
     /\ calls[k].index = i
     /\ calls[k].op \in {"create", "write", "action_archive"}
     /\ Accepted(calls[k].response)}

\* C17: a product whose export failed left the remote catalog as it was: none
\* of its create, write or archive requests was accepted by the remote.
C17_FailureLeavesRemoteUnchanged ==
  \A i \in 1..Len(results) : ~results[i].success => RemoteChanges(i) = {}


(***************************************************************************)
(* The title an export works with.                                         *)
(***************************************************************************)
SNCFBleu == <<"S", "N", "C", "F", " ", "b", "l", "e", "u">>

\* the title of a product of the profile without its "Train wagon"
Stripped(title) == IF title = TrainWagonSNCFBleu THEN SNCFBleu ELSE title

\* C18: the export works on the title with "Train wagon" left out and the ends
\* trimmed ("Train Wagon SNCF bleu" becomes "SNCF bleu"), never on the title as
\* sent: it is the name searched for, the name of the payload, and the title
\* whose tags and category are looked up.
C18_StrippedTitleEverywhere ==
  /\ Len(products) = Len(message)
  /\ \A i \in 1..Len(message) :
       /\ products[i].title = Stripped(message[i].title)
       /\ products[i].id = message[i].id
       /\ products[i].state = message[i].state
  /\ \A k \in 1..Len(calls) :
       calls[k].op \in {"search_read", "create", "write"} =>
         calls[k].name = Stripped(message[calls[k].index].title)
  /\ pc \in {"tax", "images", "category", "public_category", "create_request",
             "write_request"} =>
       /\ productData.name = Stripped(message[index].title)
       /\ Len(productData.product_tag_ids)
            = Len(getTags([title |-> Stripped(message[index].title)]))
  /\ pc \in {"category", "public_category"} =>
       getCategory([title |-> Stripped(message[index].title)]) # Null

C18_Witness ==
  /\ pc = "returned"
  /\ \E k \in 1..Len(calls) :
       /\ calls[k].op = "create"
       /\ message[calls[k].index].title = TrainWagonSNCFBleu
       /\ calls[k].name = SNCFBleu
       /\ results[calls[k].index].success
  /\ "SNCF" \in DOMAIN TAGS_ID_CACHE
  /\ "Wagons" \notin DOMAIN CATEGORY_ID_CACHE


(***************************************************************************)
(* The seller's profile: what the last request left of details and export  *)
(* status.                                                                 *)
(***************************************************************************)
\* C19: a detail is written once: a SAVE_PRODUCT_DETAILS for an ad whose
\* detail is stored leaves the stored detail (description, photos, scrapedAt)
\* as it was.
C19_DetailWrittenOnce ==
  (/\ last.type = "SAVE_PRODUCT_DETAILS"
   /\ last.detail.id \in DOMAIN DetailsOf(last.before, last.username)) =>
    DetailsOf(profiles, last.username)[last.detail.id]
      = DetailsOf(last.before, last.username)[last.detail.id]

\* C20: SAVE_PRODUCTS, SAVE_PRODUCT_DETAILS and MARK_MISSING_AS_REMOVED leave
\* the export status of every product of every profile as it was.
C20_ExportStatusKept ==
  last.type \in {"SAVE_PRODUCTS", "SAVE_PRODUCT_DETAILS", "MARK_MISSING_AS_REMOVED"} =>
    \A username \in DOMAIN last.before :
      ExportsOf(profiles, username) = ExportsOf(last.before, username)

(***************************************************************************)
(* The handlers in flight: what the last one to finish has done.           *)
(***************************************************************************)
\* the last handler that finished, and whether its seller had a profile in the
\* store it read
Finished(type) == lastWrite.handler.type = type
ProfileRead == lastWrite.handler.username \in DOMAIN lastWrite.handler.read

\* C21: after EXPORT_SINGLE_TO_ODOO for a seller who has a profile, the status
\* stored under product.id has the four properties of this export and no other:
\* exported is the outcome's success, odooProductId its productId (undefined on
\* failure), exportError its error (undefined on success), lastExportedAt the
\* time of this write, later than every time stored before.
C21_StatusReplaced ==
  (Finished("EXPORT_SINGLE_TO_ODOO") /\ ProfileRead) =>
    LET h == lastWrite.handler
        status == ExportsOf(profiles, h.username)[h.productId]
    IN /\ DOMAIN status = {"exported", "odooProductId", "lastExportedAt", "exportError"}
       /\ status.exported = h.result.success
       /\ status.odooProductId =
            (IF h.result.success THEN h.result.productId ELSE Undefined)
       /\ status.exportError = (IF h.result.success THEN Undefined ELSE h.result.error)
       /\ status.lastExportedAt = lastWrite.time
       /\ \A username \in DOMAIN h.read :
            \A id \in DOMAIN ExportsOf(h.read, username) :
              ExportsOf(h.read, username)[id].lastExportedAt < status.lastExportedAt

\* a failed export over the status of a successful one
C21_Witness ==
  /\ Finished("EXPORT_SINGLE_TO_ODOO")
  /\ ProfileRead
  /\ ~lastWrite.handler.result.success
  /\ LET h == lastWrite.handler IN
     /\ h.productId \in DOMAIN ExportsOf(h.read, h.username)
     /\ ExportsOf(h.read, h.username)[h.productId].exported
     /\ ExportsOf(h.read, h.username)[h.productId].odooProductId = "p1"
     /\ ~ExportsOf(profiles, h.username)[h.productId].exported

\* C22: lastScraped never decreases: whatever handler writes, and however the
\* reads and the writes of the handlers interleave, the lastScraped it stores
\* for a seller is at least the one that was stored, and SAVE_PRODUCTS stores
\* a later one.
C22_LastScrapedNeverDecreases ==
  lastWrite.wrote =>
    \A username \in (DOMAIN profiles) \cap (DOMAIN lastWrite.overwritten) :
      /\ profiles[username].lastScraped >= lastWrite.overwritten[username].lastScraped
      /\ (Finished("SAVE_PRODUCTS") /\ username = lastWrite.handler.username) =>
           profiles[username].lastScraped > lastWrite.overwritten[username].lastScraped

(***************************************************************************)
(* The pagination walk.                                                    *)
(***************************************************************************)
\* the walk has scraped every page of the seller
FullWalk ==
  /\ scrape.visited = 1..Len(scrape.pages)
  /\ ~scrape.stopped

\* C23: MARK_MISSING_AS_REMOVED is sent only with the ids of a walk that has
\* scraped every page of the seller: not after a walk that stopped for want of
\* a next page button, nor after one that scraped no page.
C23_MarkOnlyAfterFullWalk ==
  scrape.marked =>
    /\ FullWalk
    /\ scrape.currentIds = {scrape.pages[p] : p \in 1..Len(scrape.pages)}

(***************************************************************************)
(* Resurrection of a removed listing.                                      *)
(***************************************************************************)
\* the batch without the listings of an id
RECURSIVE WithoutId(_, _)
WithoutId(batch, id) ==
  IF batch = <<>> THEN <<>>
  ELSE IF Head(batch).id = id THEN WithoutId(Tail(batch), id)
  ELSE <<Head(batch)>> \o WithoutId(Tail(batch), id)

\* what the batch counts as updated for the other ids
UpdatedOfOthers(id) ==
  mergeListingsWithStats(Before, WithoutId(last.products, id)).updated

\* the stored listing is REMOVED and the batch has it as ACTIVE
Resurrected(id) ==
  /\ id \in DOMAIN Before
  /\ Before[id].state = REMOVED
  /\ \E i \in Occurrences(id) : last.products[i].state = ACTIVE

\* C24 as stated: a stored REMOVED listing that a SAVE_PRODUCTS batch contains
\* as ACTIVE is stored as ACTIVE after the merge and counts as one update.
C24_RemovedListingResurrected ==
  Saved =>
    \A id \in Ids :
      Resurrected(id) =>
        /\ After[id].state = ACTIVE
        /\ last.updated = UpdatedOfOthers(id) + 1

\* C24 amended: so it is when the batch contains the id once.
C24_RemovedListingResurrectedOnce ==
  Saved =>
    \A id \in Ids :
      (Resurrected(id) /\ Cardinality(Occurrences(id)) = 1) =>
        /\ After[id].state = ACTIVE
        /\ last.updated = UpdatedOfOthers(id) + 1

\* a removed listing comes back in a batch with another listing
C24_Witness ==
  /\ Saved
  /\ Len(last.products) = 2
  /\ \E id \in Ids :
       /\ Resurrected(id)
       /\ Cardinality(Occurrences(id)) = 1
       /\ \A f \in MonitoredFields \ {"state"} :
            \A i \in Occurrences(id) : Get(Before[id], f) = Get(last.products[i], f)
       /\ After[id].state = ACTIVE
       /\ last.updated = 1

(***************************************************************************)
(* Export requests in flight together.  The listener starts exportProduct  *)
(* for each EXPORT_SINGLE_TO_ODOO message without waiting for the one      *)
(* before; each call has its own OdooService, the caches are those of the  *)
(* module.  Every await on the remote is two steps, the request and the    *)
(* answer; loadImages reads nothing that is shared and is left out.  The   *)
(* remote finds a product by its name when it has created one of that name. *)
(***************************************************************************)
\* the records of a name that the remote has created for these exports
Created(name) == IF name \in DOMAIN catalog THEN catalog[name].created ELSE 0

\* the products the popup can send, as exportSingleToOdoo cleans them
SingleProducts == {cleanedProduct(p) : p \in ExportableProducts}

\* the answers of the remote to a reference lookup
LookupAnswers == {"found", "empty", "http_error"}

\* productToOdooDict: the lookups it makes, in order
Stages == {"tags", "tax", "category", "public_category"}

KindOf(stage) ==
  IF stage = "tags" THEN "tag"
  ELSE IF stage = "tax" THEN "tax"
  ELSE IF stage = "category" THEN "category"
  ELSE "public_category"

\* the names looked up at a stage
Wanted(stage, product) ==
  IF stage = "tags" THEN {getTags(product)[i] : i \in 1..Len(getTags(product))}
  ELSE IF stage = "tax" THEN {taxName}
  ELSE {getCategory(product)}

\* createProduct or updateProduct, once productToOdooDict has returned
RequestStage(existing) == IF existing = Null THEN "create" ELSE "write"

StageAfter(stage, product, existing) ==
  IF stage = "tags" THEN "tax"
  ELSE IF stage = "tax"
    THEN IF getCategory(product) # Null THEN "category" ELSE RequestStage(existing)
  ELSE IF stage = "category" THEN "public_category"
  ELSE RequestStage(existing)

\* the get...Id of a kind, called with a name its cache does not hold
GetId(kind, name, response) ==
  IF kind = "tag" THEN getTagId(EmptyObject, name, response)
  ELSE IF kind = "tax" THEN getTaxId(EmptyObject, response)
  ELSE IF kind = "category" THEN getCategoryId(EmptyObject, name, response)
  ELSE getPublicCategoryId(EmptyObject, name, response)

\* the lookups of a key that wait for their answer
InFlight(kind, name) ==
  {slot \in Slots : /\ exports[slot].pc \in Stages
                    /\ KindOf(exports[slot].pc) = kind
                    /\ name \in exports[slot].pending}

\* exportSingleToOdoo: exportProduct(cleanedProduct, true) sends its search
StartExport ==
  /\ \E slot \in Slots, product \in SingleProducts :
       /\ exports[slot].pc = "idle"
       /\ exports' = [exports EXCEPT ![slot] =
                        [NoRequestInFlight EXCEPT !.pc = "search", !.product = product]]
  /\ UNCHANGED <<catalog, storeVars, exportVars, resolveVars, classifyVars, tabVars,
                 asyncVars, scrapeVars>>

\* searchProduct returns or throws; exportProduct takes its branch
SearchAnswered ==
  /\ \E slot \in Slots :
       LET e == exports[slot]
       IN /\ e.pc = "search"
          /\ \E response \in IF Created(e.product.title) = 0
                               THEN {"empty", "http_error"}
                               ELSE {"found", "http_error"} :
               LET found == IF response = "found" THEN RemoteIdOf(e.product) ELSE Null
                   branch == Decide(found, e.product, TRUE)
               IN exports' =
                    [exports EXCEPT ![slot] =
                       IF parseJsonResponse(response) # NoError THEN NoRequestInFlight
                       ELSE [e EXCEPT !.existingProductId = found,
                                      !.pc = IF branch = "archive" THEN "archive"
                                             ELSE "tags"]]
  /\ UNCHANGED <<catalog, storeVars, exportVars, resolveVars, classifyVars, tabVars,
                 asyncVars, scrapeVars>>

\* get...Id up to its await: the names the cache holds are returned from it, a
\* fetch is sent for each of the others
CallLookups ==
  /\ \E slot \in Slots :
       LET e == exports[slot]
           missed == {name \in Wanted(e.pc, e.product) :
                        name \notin DOMAIN CacheOf(KindOf(e.pc))}
       IN /\ e.pc \in Stages
          /\ e.pending = {}
          /\ exports' =
               [exports EXCEPT ![slot] =
                  IF missed = {}
                    THEN [e EXCEPT !.pc = StageAfter(e.pc, e.product, e.existingProductId)]
                    ELSE [e EXCEPT !.pending = missed]]
  /\ UNCHANGED <<catalog, storeVars, exportVars, resolveVars, classifyVars, tabVars,
                 asyncVars, scrapeVars>>

\* the fetches are answered: each get...Id sets its cache or throws; an error
\* of a tag or of the tax ends exportProduct, one of a category is logged
LookupsAnswered ==
  /\ \E slot \in Slots :
       LET e == exports[slot]
           kind == KindOf(e.pc)
       IN /\ e.pc \in Stages
          /\ e.pending # {}
          /\ \E responses \in [e.pending -> LookupAnswers] :
               LET r == [name \in e.pending |-> GetId(kind, name, responses[name])]
                   failed == {name \in e.pending : r[name].error # NoError}
                   set == [name \in {n \in e.pending : n \in DOMAIN r[n].cache} |->
                             r[name].id]
                   filled(k, cache) == IF k = kind THEN Spread(cache, set) ELSE cache
               IN /\ TAGS_ID_CACHE' = filled("tag", TAGS_ID_CACHE)
                  /\ TAX_ID_CACHE' = filled("tax", TAX_ID_CACHE)
                  /\ CATEGORY_ID_CACHE' = filled("category", CATEGORY_ID_CACHE)
                  /\ PUBLIC_CATEGORY_ID_CACHE' =
                       filled("public_category", PUBLIC_CATEGORY_ID_CACHE)
                  /\ exports' =
                       [exports EXCEPT ![slot] =
                          IF failed = {}
                            THEN [e EXCEPT !.pending = {},
                                           !.pc = StageAfter(e.pc, e.product,
                                                             e.existingProductId)]
                          ELSE IF kind \in {"tag", "tax"} THEN NoRequestInFlight
                          ELSE [e EXCEPT !.pending = {},
                                         !.pc = RequestStage(e.existingProductId)]]
  /\ UNCHANGED <<catalog, storeVars, runVars, resolveVars, classifyVars, tabVars,
                 asyncVars, scrapeVars>>

\* createProduct: the remote creates the record when it accepts the request
CreateAnswered ==
  /\ \E slot \in Slots, response \in CreateResponses :
       /\ exports[slot].pc = "create"
       /\ catalog' =
            LET name == exports[slot].product.title IN
            IF raiseForStatus(response) = NoError
              THEN Put(catalog, name,
                       [created |-> Created(name) + 1, archived |-> FALSE])
              ELSE catalog
       /\ exports' = [exports EXCEPT ![slot] = NoRequestInFlight]
  /\ UNCHANGED <<storeVars, exportVars, resolveVars, classifyVars, tabVars,
                 asyncVars, scrapeVars>>

\* updateProduct
WriteAnswered ==
  /\ \E slot \in Slots :
       /\ exports[slot].pc = "write"
       /\ exports' = [exports EXCEPT ![slot] = NoRequestInFlight]
  /\ UNCHANGED <<catalog, storeVars, exportVars, resolveVars, classifyVars, tabVars,
                 asyncVars, scrapeVars>>

\* archiveProduct: the remote archives the record when it accepts the request
ArchiveAnswered ==
  /\ \E slot \in Slots, response \in StatusResponses :
       /\ exports[slot].pc = "archive"
       /\ catalog' =
            LET name == exports[slot].product.title IN
            IF raiseForStatus(response) = NoError
              THEN Put(catalog, name, [catalog[name] EXCEPT !.archived = TRUE])
              ELSE catalog
       /\ exports' = [exports EXCEPT ![slot] = NoRequestInFlight]
  /\ UNCHANGED <<storeVars, exportVars, resolveVars, classifyVars, tabVars,
                 asyncVars, scrapeVars>>

NextConcurrent ==
  \/ StartExport
  \/ SearchAnswered
  \/ CallLookups
  \/ LookupsAnswered
  \/ CreateAnswered
  \/ WriteAnswered
  \/ ArchiveAnswered

SpecConcurrent == Init /\ [][NextConcurrent]_vars

\* C25: however often a product is exported, and whatever requests are in
\* flight together, the remote holds at most one record of its name that these
\* exports have created.
C25_OneRecordPerTitle ==
  \A product \in SingleProducts : Created(product.title) <= 1

\* C30: no two lookups of the same kind and name wait for their answer at the
\* same time, whatever export requests are in flight together.
C30_OneLookupPerKey ==
  \A kind \in ResolveKinds :
    \A name \in ResolvedTags \cup ResolvedCategories \cup {taxName} \cup {"SNCF"} :
      Cardinality(InFlight(kind, name)) <= 1

(***************************************************************************)
(* The order of a batch export.                                            *)
(***************************************************************************)
\* the products whose outcome exportProducts has
Settled == 1..Len(results)

\* C26: exportProducts handles one product at a time, in the order of the
\* batch: the product whose remote calls are made (search, lookups, image,
\* create, write, archive) is the first one without an outcome, and every
\* product.template request was made for a product no later than it, after
\* the requests of the products before.
C26_OneProductAtATime ==
  /\ index = Len(results) + 1
  /\ pc # "returned" => index \in 1..Len(products)
  /\ pc = "returned" => Len(results) = Len(products)
  /\ \A k \in 1..Len(calls) :
       /\ calls[k].index <= index
       /\ k > 1 => calls[k - 1].index <= calls[k].index
       /\ \A i \in 1..(calls[k].index - 1) : i \in Settled

\* a batch of three whose second product is looked up and created after the
\* first has its outcome, and before the third is searched
C26_Witness ==
  /\ Len(products) = 3
  /\ Len(results) = 2
  /\ pc = "search"
  /\ results[2].success
  /\ Flag(results[2], "created")
  /\ \E k \in 1..Len(calls) : calls[k].index = 1
  /\ \E k \in 1..Len(calls) : calls[k].index = 2 /\ calls[k].op = "create"

(***************************************************************************)
(* The keys of a profile.                                                  *)
(***************************************************************************)
\* C27: in the stored profiles every key of details and every key of
\* odooExports is a key of the listings of the same profile.
C27_ReferentialIntegrity ==
  \A username \in DOMAIN profiles :
    /\ DOMAIN DetailsOf(profiles, username) \subseteq DOMAIN ListingsOf(profiles, username)
    /\ DOMAIN ExportsOf(profiles, username) \subseteq DOMAIN ListingsOf(profiles, username)

\* the messages that write the store
Mutating ==
  {"SAVE_PRODUCTS", "SAVE_PRODUCT_DETAILS", "MARK_MISSING_AS_REMOVED",
   "EXPORT_SINGLE_TO_ODOO", "EXPORT_TO_ODOO"}

\* C28: handled one after another, SAVE_PRODUCTS, SAVE_PRODUCT_DETAILS,
\* MARK_MISSING_AS_REMOVED and the exports keep every profile and every key of
\* its listings; a listing goes only with its profile, cleared from the popup.
C28_ListingKeysKept ==
  last.type \in Mutating =>
    \A username \in DOMAIN last.before :
      /\ username \in DOMAIN profiles
      /\ DOMAIN ListingsOf(last.before, username)
           \subseteq DOMAIN ListingsOf(profiles, username)

\* a listing that was not found is marked, and stays
C28_Witness ==
  /\ Marked
  /\ \E id \in DOMAIN Before :
       /\ Before[id].state = ACTIVE
       /\ id \in DOMAIN After
       /\ After[id].state = REMOVED

(***************************************************************************)
(* Two handlers that have both read the store before either writes it.     *)
(***************************************************************************)
\* the store was written between the getItem and the setItem of the last
\* handler that wrote
WrittenMeanwhile ==
  /\ lastWrite.wrote
  /\ lastWrite.overwritten # lastWrite.handler.read

\* the sellers the last handler's message does not name
OtherSellers == Usernames \ {lastWrite.handler.username}

\* C29: a handler that writes after another handler has written since its own
\* read leaves the store equal to its own result computed from what it read:
\* every other seller's profile is as it was read, the earlier change is gone.
C29_LaterWriterAlone ==
  WrittenMeanwhile =>
    LET h == lastWrite.handler IN
    /\ profiles = WritesOf(h, lastWrite.time).blob
    /\ \A username \in OtherSellers :
         /\ username \in DOMAIN profiles <=> username \in DOMAIN h.read
         /\ username \in DOMAIN profiles => profiles[username] = h.read[username]

\* both handlers read the empty store; the first wrote a profile for one seller,
\* the second wrote for another seller and the first seller's profile is gone
C29_Witness ==
  /\ WrittenMeanwhile
  /\ lastWrite.handler.read = EmptyObject
  /\ \E username \in OtherSellers :
       /\ username \in DOMAIN lastWrite.overwritten
       /\ username \notin DOMAIN profiles
  /\ lastWrite.handler.username \in DOMAIN profiles

(***************************************************************************)
(* The caches and the services: every export request makes its own         *)
(* OdooService (createOdooService), the caches are constants of the module. *)
(***************************************************************************)
\* the names that the get...Id calls of a request return from the cache in
\* this step: the request is at a stage it has made no lookup for, and its
\* service has made none before (one product, one productToOdooDict)
ServedFromCache(slot) ==
  IF /\ exports[slot].pc \in Stages
     /\ exports[slot].pending = {}
     /\ exports'[slot] # exports[slot]
    THEN Wanted(exports[slot].pc, exports[slot].product)
           \cap DOMAIN CacheOf(KindOf(exports[slot].pc))
    ELSE {}

\* C31: a service returns from the cache only ids it has cached itself: the
\* service of a request, which has cached nothing before its lookup, is never
\* served an id that the service of another request has cached.
C31_CachePerService ==
  [][\A slot \in Slots : ServedFromCache(slot) = {}]_vars

(***************************************************************************)
(* References the remote does not have.                                    *)
(***************************************************************************)
\* getTagId or getTaxId threw its not-found error for the product at position i
TagOrTaxNotFound(i) == raised[i] \in {NotFound("tag"), NotFound("tax")}

\* C32: a tag or the tax that the remote does not have fails the product it
\* was looked up for and no other: its outcome is a failure with that error, no
\* create and no write was issued for it, and the products after it are
\* searched and get their outcome.
C32_NotFoundFailsOneProduct ==
  \A i \in 1..Len(results) :
    TagOrTaxNotFound(i) =>
      /\ ~results[i].success
      /\ results[i].error = raised[i]
      /\ Issued(i, "create") = 0
      /\ Issued(i, "write") = 0
      /\ index > i
      /\ pc = "returned" => Len(results) = Len(products)
      /\ pc # "returned" => index <= Len(products)
      /\ \A j \in (i + 1)..Len(results) : Issued(j, "search_read") = 1

\* a batch of three: a tag is not found for one product, the tax for another,
\* and the last one is created
C32_Witness ==
  /\ pc = "returned"
  /\ Len(products) = 3
  /\ \E i, j \in 1..2 :
       /\ raised[i] = NotFound("tag")
       /\ raised[j] = NotFound("tax")
  /\ results[3].success
  /\ Flag(results[3], "created")

(***************************************************************************)
(* The primary category that cannot be resolved.                           *)
(***************************************************************************)
\* the step in which getCategoryId throws: the category was not cached, and is
\* not cached afterwards
CategoryFails ==
  /\ pc = "category"
  /\ getCategory(products[index]) \notin DOMAIN CATEGORY_ID_CACHE
  /\ CATEGORY_ID_CACHE' = CATEGORY_ID_CACHE

\* productToOdooDict has returned a payload without the category of a product
\* that has one
CategoryUnresolved ==
  /\ pc \in {"create_request", "write_request"}
  /\ getCategory(products[index]) # Null
  /\ "categ_id" \notin DOMAIN productData

\* the failure is logged: the payload is as it was, without categ_id and
\* without public_categ_ids, and goes to createProduct or updateProduct
PayloadKept ==
  /\ pc' = (IF existingProductId = Null THEN "create_request" ELSE "write_request")
  /\ productData' = productData
  /\ DOMAIN productData' \cap {"categ_id", "public_categ_ids"} = {}
  /\ {"name", "list_price", "product_tag_ids", "taxes_id"} \subseteq DOMAIN productData'
  /\ results' = results

\* the create or write request is issued with that payload
RequestIssued ==
  /\ Len(calls') = Len(calls) + 1
  /\ calls'[Len(calls')].index = index
  /\ calls'[Len(calls')].op = (IF pc = "create_request" THEN "create" ELSE "write")
  /\ calls'[Len(calls')].name = productData.name
  /\ Len(results') = Len(results) + 1

\* the error that createProduct or updateProduct throws on the answer just given
RequestError ==
  IF calls'[Len(calls')].op = "create"
    THEN parseJsonResponse(calls'[Len(calls')].response)
    ELSE raiseForStatus(calls'[Len(calls')].response)

\* C33: when getCategoryId fails, for want of a record or of an answer, the
\* payload is built all the same, without categ_id and without public category;
\* the create or write request is issued with it and decides the outcome: a
\* success when createProduct or updateProduct returns, the failure with its
\* error when the request itself fails.
C33_CategoryFailureKeepsPayload ==
  [][/\ CategoryFails => PayloadKept
     /\ CategoryUnresolved =>
          /\ RequestIssued
          /\ results'[Len(results')].success = (RequestError = NoError)
          /\ RequestError # NoError => results'[Len(results')].error = RequestError]_vars

\* the first product has a category that was never resolved, and was created
C33_Witness ==
  /\ Len(results) >= 1
  /\ getCategory(products[1]) # Null
  /\ getCategory(products[1]) \notin DOMAIN CATEGORY_ID_CACHE
  /\ Issued(1, "create") = 1
  /\ results[1].success
  /\ Flag(results[1], "created")

(***************************************************************************)
(* The combined products: the reply to GET_COMBINED_PRODUCTS.              *)
(***************************************************************************)
\* the properties a Product takes from the detail of its listing
FromDetail == {"description", "photos", "detailsScrapedAt"}

\* C34: the reply to GET_COMBINED_PRODUCTS has one Product per key of the
\* listings of the profile it read, and none besides; a Product has the
\* properties of its listing, description, photos and detailsScrapedAt of the
\* detail of its id exactly when there is one, odooExport exactly when there is
\* an export status of its id; the store is as the query found it.
C34_CombinedJoin ==
  Finished("GET_COMBINED_PRODUCTS") =>
    LET h == lastWrite.handler
        reply == lastWrite.combined
        listings == ListingsOf(h.read, h.username)
        details == DetailsOf(h.read, h.username)
        odooExports == ExportsOf(h.read, h.username)
    IN /\ Len(reply) = Cardinality(DOMAIN listings)
       /\ {reply[i].id : i \in 1..Len(reply)} = DOMAIN listings
       /\ \A i \in 1..Len(reply) :
            LET product == reply[i]
                id == product.id
            IN /\ \A f \in DOMAIN listings[id] : product[f] = listings[id][f]
               /\ DOMAIN product \subseteq
                    (DOMAIN listings[id]) \cup FromDetail \cup {"odooExport"}
               /\ IF id \in DOMAIN details
                    THEN /\ FromDetail \subseteq DOMAIN product
                         /\ product.description = details[id].description
                         /\ product.photos = details[id].photos
                         /\ product.detailsScrapedAt = details[id].scrapedAt
                    ELSE FromDetail \cap DOMAIN product = {}
               /\ IF id \in DOMAIN odooExports
                    THEN /\ "odooExport" \in DOMAIN product
                         /\ product.odooExport = odooExports[id]
                    ELSE "odooExport" \notin DOMAIN product
       /\ ~lastWrite.wrote
       /\ profiles = lastWrite.overwritten

\* the seller has a listing without detail, and another seller's profile holds
\* a detail: one Product, without description
C34_Witness ==
  /\ Finished("GET_COMBINED_PRODUCTS")
  /\ Len(lastWrite.combined) = 1
  /\ "description" \notin DOMAIN lastWrite.combined[1]
  /\ DOMAIN DetailsOf(lastWrite.handler.read, lastWrite.handler.username) = {}
  /\ \E username \in OtherSellers :
       DOMAIN DetailsOf(lastWrite.handler.read, username) # {}

(***************************************************************************)
(* The store after a run of the scrape button.                             *)
(***************************************************************************)
\* the ads the seller's pages show
ShownOnPages == {scrape.pages[p] : p \in 1..Len(scrape.pages)}

\* the profile has one page and the document no page button
NoPageButtons ==
  /\ scrape.totalPages = 0
  /\ Len(scrape.pages) = 1

\* the run is at its last step, the save, after a walk over every page or on
\* a profile without page buttons
RunCompletes ==
  /\ scrape.step = "save"
  /\ FullWalk \/ NoPageButtons

\* C35: when a run of the scrape button ends (walk, MARK_MISSING_AS_REMOVED,
\* SAVE_PRODUCTS), every ad that the seller's pages show is a stored listing
\* with the state scraped, not REMOVED; so it is with page buttons and without.
C35_ShownListingsStored ==
  [][RunCompletes =>
       \A id \in ShownOnPages :
         /\ id \in DOMAIN ListingsOf(profiles', currentUsername)
         /\ ListingsOf(profiles', currentUsername)[id].state = BaseListing(id).state]_vars

(***************************************************************************)
(* The seller a scraped listing is saved for.                              *)
(***************************************************************************)
\* C36: the listings stored for a seller are ads of that seller: no ad scraped
\* from the profile page of one seller is saved into the profile of another,
\* however the user goes from one profile page to the other.
C36_SavedUnderOwnSeller ==
  \A username \in DOMAIN profiles :
    DOMAIN ListingsOf(profiles, username) \subseteq AdsOf(username)

(***************************************************************************)
(* The remote id in the export status.                                     *)
(***************************************************************************)
\* the status names the remote record
HasRemoteId(status) == Get(status, "odooProductId") # Undefined

\* C37: a status that says exported names the remote record of the product,
\* whether EXPORT_SINGLE_TO_ODOO or EXPORT_TO_ODOO has written it, and
\* EXPORT_TO_ODOO leaves the remote id that a status had where it was.
C37_ExportedHasRemoteId ==
  /\ \A username \in DOMAIN profiles :
       \A id \in DOMAIN ExportsOf(profiles, username) :
         ExportsOf(profiles, username)[id].exported =>
           HasRemoteId(ExportsOf(profiles, username)[id])
  /\ last.type = "EXPORT_TO_ODOO" =>
       \A id \in DOMAIN ExportsOf(last.before, last.username) :
         HasRemoteId(ExportsOf(last.before, last.username)[id]) =>
           /\ id \in DOMAIN ExportsOf(profiles, last.username)
           /\ Get(ExportsOf(profiles, last.username)[id], "odooProductId") =
                ExportsOf(last.before, last.username)[id].odooProductId

(***************************************************************************)
(* Keys and ids of the listings.                                           *)
(***************************************************************************)
\* C38: every listing is stored under its own id, for every seller: the ids of
\* a seller's listings are distinct, and a stored listing keeps its id through
\* SAVE_PRODUCTS and MARK_MISSING_AS_REMOVED.
C38_KeyIsId ==
  /\ \A username \in DOMAIN profiles :
       \A k \in DOMAIN ListingsOf(profiles, username) :
         Get(ListingsOf(profiles, username)[k], "id") = k
  /\ (Saved \/ Marked) =>
       \A k \in DOMAIN Before :
         /\ k \in DOMAIN After
         /\ Get(After[k], "id") = Get(Before[k], "id")

\* three listings stored, one of them marked REMOVED by the last message
C38_Witness ==
  /\ Marked
  /\ Cardinality(DOMAIN After) = 3
  /\ \E k \in DOMAIN Before : Before[k].state # REMOVED /\ After[k].state = REMOVED
  /\ \E k \in DOMAIN Before : After[k] = Before[k]

(***************************************************************************)
(* The archive path.                                                       *)
(***************************************************************************)
\* searchProduct has just found a record for a product that is SOLD or REMOVED
FoundSoldOrRemoved ==
  /\ pc = "search"
  /\ Len(calls') = Len(calls) + 1
  /\ calls'[Len(calls')].found # Null
  /\ products[index].state \in {SOLD, REMOVED}

\* no productToOdooDict: no cache is read or set, no payload is built
NoPayload ==
  /\ UNCHANGED cacheVars
  /\ productData = EmptyObject
  /\ productData' = EmptyObject

\* the one request of the archive path, and the outcome it decides
ArchiveAlone ==
  /\ Len(calls') = Len(calls) + 1
  /\ calls'[Len(calls')].index = index
  /\ calls'[Len(calls')].op = "action_archive"
  /\ calls'[Len(calls')].ids = <<existingProductId>>
  /\ Len(results') = Len(results) + 1
  /\ results'[Len(results')].success =
       (raiseForStatus(calls'[Len(calls')].response) = NoError)
  /\ results'[Len(results')].success =>
       /\ Flag(results'[Len(results')], "archived")
       /\ results'[Len(results')].productId = existingProductId

\* C39: for a product that is SOLD or REMOVED and found by the search,
\* exportProduct goes from the search to archiveProduct: no tag, tax, category
\* or image is asked for and no payload is built, so the outcome is archived
\* whenever the archive request is accepted, whatever the remote holds of tags
\* and taxes.
C39_ArchiveBuildsNoPayload ==
  [][/\ FoundSoldOrRemoved => (pc' = "archive" /\ NoPayload /\ results' = results)
     /\ pc = "archive" => (NoPayload /\ ArchiveAlone)]_vars

\* the tax was not found for the first product; the second, which has a tag,
\* is archived, and no tag and no tax was ever resolved
C39_Witness ==
  /\ Len(results) >= 2
  /\ raised[1] = NotFound("tax")
  /\ results[2].success
  /\ Flag(results[2], "archived")
  /\ Len(getTags(products[2])) > 0
  /\ TAX_ID_CACHE = EmptyObject
  /\ getTags(products[2])[1] \notin DOMAIN TAGS_ID_CACHE

(***************************************************************************)
(* Exports started by a message.                                           *)
(***************************************************************************)
\* the outcome names what was done to the remote record
NamesItsAction(result) ==
  Flag(result, "created") \/ Flag(result, "updated") \/ Flag(result, "archived")

\* C40: an export started by a message runs with overwriteExisting true: a
\* product that the search finds and whose state is ACTIVE gets a write of the
\* found id and no other request, with the outcome updated when no call fails,
\* and no outcome is the bare success of the skipped update.
C40_MessageExportsOverwrite ==
  /\ overwriteExisting
  /\ \A i \in 1..Len(results) :
       /\ results[i].success => NamesItsAction(results[i])
       /\ (FoundFor(i) # Null /\ products[i].state = ACTIVE) =>
            /\ Issued(i, "create") = 0
            /\ Issued(i, "action_archive") = 0
            /\ raised[i] = NoError =>
                 /\ IssuedOnceWith(i, "write", <<FoundFor(i)>>)
                 /\ results[i] = [success |-> TRUE, productId |-> FoundFor(i),
                                  updated |-> TRUE]

\* a product found with the state ACTIVE has been updated
C40_Witness ==
  /\ pc = "returned"
  /\ \E i \in 1..Len(results) :
       /\ products[i].state = ACTIVE
       /\ FoundFor(i) # Null
       /\ Flag(results[i], "updated")
       /\ IssuedOnceWith(i, "write", <<FoundFor(i)>>)

=============================================================================
